---- MODULE Spec2Model ----
(***************************************************************************)
(* AxiomOS agent core: the request pipeline of AxiomOSAgent (src/src/      *)
(* agent.py) over its two stores, the durable store (sessions and          *)
(* long-term memory rows, src/src/database.py) and the session cache       *)
(* (src/src/redis_manager.py).                                             *)
(*                                                                         *)
(* Text is modelled as a sequence of words.  A request message is a record *)
(* [slash, words]: slash says that the trimmed text starts with '/', and   *)
(* words are the whitespace-separated words after it.  A memory key is a   *)
(* sequence of words as well.  Formatted responses are records that carry  *)
(* the tag of the format string and the values it embeds.                  *)
(***************************************************************************)
EXTENDS Bags, FiniteSets, Integers, Naturals, Sequences, TLC

\* ------------------------------------------------------------------------
\* Bounds
\* ------------------------------------------------------------------------
MaxClock == 2          \* the clock runs over the seconds 0..MaxClock
MaxRows == 2           \* rows the long_term_memory table may hold

\* config.session_timeout, in clock seconds
SessionTimeout == 2

DefaultUser == 1       \* user_id given to every session row the agent creates
Users == {1, 2}
SessionIds == {"s1"}
NoSession == "none"    \* request.session_id is None

\* ------------------------------------------------------------------------
\* Text
\* ------------------------------------------------------------------------
\* str.lower() on one word
Lower(w) ==
  CASE w = "CONFIRM" -> "confirm"
    [] w = "Clear" -> "clear"
    [] w = "All" -> "all"
    [] w = "Delete" -> "delete"
    [] w = "Remember" -> "remember"
    [] w = "Save" -> "save"
    [] w = "Recall" -> "recall"
    [] w = "I" -> "i"
    [] OTHER -> w

LowerAll(ws) == [i \in 1..Len(ws) |-> Lower(ws[i])]

\* needle in w, for one lower-cased word w: the words of the vocabulary
\* that embed another word as a substring
Embeds == {<<"remember", "remembered">>, <<"delete", "deleted">>}
InWord(needle, w) == needle = w \/ <<needle, w>> \in Embeds

\* needle in text, for a needle without blanks
InText(needle, ws) == \E i \in 1..Len(ws) : InWord(needle, ws[i])

\* phrase in text, for a phrase of several words separated by one blank
PhraseIn(phrase, ws) ==
  \E i \in 0..(Len(ws) - Len(phrase)) :
    \A j \in 1..Len(phrase) : ws[i + j] = phrase[j]

\* strftime('%Y%m%d_%H%M%S') of the clock second t behind a prefix
MemoryStamp == <<"memory_0", "memory_1", "memory_2", "memory_3">>
ConversationStamp ==
  <<"conversation_0", "conversation_1", "conversation_2", "conversation_3">>
MemoryKeyAt(t) == <<MemoryStamp[t + 1]>>
ConversationKeyAt(t) == <<ConversationStamp[t + 1]>>

Cmd(ws) == [slash |-> TRUE, words |-> ws]
Txt(ws) == [slash |-> FALSE, words |-> ws]

\* the request messages drawn as inputs
ClearMessages ==
  { Cmd(<<"clear">>), Cmd(<<"clear", "confirm">>), Cmd(<<"Clear", "CONFIRM">>),
    Cmd(<<"clear", "confirm", "now">>) }
DeleteMessages ==
  { Cmd(<<"delete">>), Cmd(<<"delete", "k1">>) }
    \cup { Cmd(<<"delete">> \o MemoryKeyAt(t)) : t \in 0..MaxClock }
OtherCommands == { Cmd(<<"save">>), Cmd(<<"help">>) }
PlainMessages ==
  { Txt(<<"delete", "all", "memories">>), Txt(<<"Delete", "my", "memory">>),
    Txt(<<"hello">>) }
Messages == ClearMessages \cup DeleteMessages \cup OtherCommands \cup PlainMessages

\* the request messages of the turns that save and recall
SaveMessages == { Cmd(<<"save">>) }
RecallMessages ==
  { Cmd(<<"recall">>) } \cup { Cmd(<<"recall">> \o MemoryKeyAt(t)) : t \in 0..MaxClock }
RememberMessages == { Txt(<<"Remember", "this">>) }
TurnMessages ==
  SaveMessages \cup RecallMessages \cup RememberMessages
    \cup { Cmd(<<"forget">>), Cmd(<<"clear", "confirm">>), Txt(<<"hello">>) }

\* ------------------------------------------------------------------------
\* Values
\* ------------------------------------------------------------------------
\* a formatted text: the format string's tag and the values it embeds
Resp(t, key, n) == [t |-> t, key |-> key, n |-> n]
NoKey == << >>

\* entries of AgentState.messages: the request text, or a text appended by a
\* stage
Request(m) == [src |-> "request", text |-> m]
Reply(x) == [src |-> "reply", text |-> x]

\* dict operations on a context (a function from its keys)
EmptyDict == [k \in {} |-> TRUE]
Has(d, k) == k \in DOMAIN d
Truthy(d, k) == k \in DOMAIN d /\ d[k] = TRUE
Pop(d, ks) == [k \in (DOMAIN d) \ ks |-> d[k]]
Put(d, k, v) == [x \in (DOMAIN d) \cup {k} |-> IF x = k THEN v ELSE d[x]]
Update(d, e) ==
  [x \in (DOMAIN d) \cup (DOMAIN e) |-> IF x \in DOMAIN e THEN e[x] ELSE d[x]]

\* the long_term_memory table: a bag of rows, a function from the rows
\* present to the number of copies
Row(u, k, v) == [user_id |-> u, key |-> k, value |-> v]
EmptyTable == [r \in {} |-> 0]
RECURSIVE SumOver(_, _)
SumOver(f, S) ==
  IF S = {} THEN 0
  ELSE LET x == CHOOSE y \in S : TRUE IN f[x] + SumOver(f, S \ {x})
RowCount(t) == SumOver(t, DOMAIN t)
RowsOf(t, u) == {r \in DOMAIN t : r.user_id = u}
RowsAt(t, u, k) == {r \in DOMAIN t : r.user_id = u /\ r.key = k}
CountOf(t, u) == SumOver(t, RowsOf(t, u))
CountAt(t, u, k) == SumOver(t, RowsAt(t, u, k))
\* session.add(row); commit()
InsertRow(t, row) ==
  [r \in (DOMAIN t) \cup {row} |->
     IF r = row THEN (IF row \in DOMAIN t THEN t[row] + 1 ELSE 1) ELSE t[r]]
\* query(...).filter(...).delete(); commit()
DeleteRows(t, S) == [r \in (DOMAIN t) \ S |-> t[r]]

VARIABLES
  now,        \* the clock, in seconds
  sessions,   \* the sessions table: session_id -> row
  memories,   \* the long_term_memory table
  cache,      \* the session cache: session_id -> [data, expires_at]
  turn,       \* what the last operation was given and what it returned
  prompted,   \* users whose earlier '/clear' turn returned the prompt
  saved,      \* <<user, key>> of the records a '/save' turn has reported and
              \* no later turn has deleted
  redis,      \* the RedisManager instance (client, fallback_mode,
              \* memory_storage) and whether the Redis server answers
  procs       \* the requests in flight at the same time, each with the
              \* stage it has reached

vars == <<now, sessions, memories, cache, turn, prompted, saved, redis, procs>>

\* ------------------------------------------------------------------------
\* The pipeline stages.  A stage maps a run record to a run record: the
\* AgentState fields (user_id, session_id, messages, context,
\* long_term_memory), the stores as the run has left them (sessions,
\* memories, cache), the exception that ended the run (raised) and what the
\* run has done so far (llm_calls, deleted, cmd_db, and saved_messages, the
\* 'messages' list of the record a '/save' has written).
\* ------------------------------------------------------------------------
NoUser == 0            \* AgentState.user_id is None
NotRaised == "none"

\* AgentState(session_id=request.session_id, messages=[request.message]);
\* up says whether the durable store answers during the run
InitialState(msg, sid, up) ==
  [user_id |-> NoUser, session_id |-> sid, messages |-> <<Request(msg)>>,
   context |-> EmptyDict, long_term_memory |-> EmptyDict,
   sessions |-> sessions, memories |-> memories, cache |-> cache,
   store_up |-> up, raised |-> NotRaised, llm_calls |-> 0, deleted |-> 0,
   cmd_db |-> FALSE, saved_messages |-> << >>, searches |-> 0]

\* _authenticate; fresh is the uuid4 drawn when the request names no session
Authenticate(r, fresh) ==
  LET sid == IF r.session_id = NoSession THEN fresh ELSE r.session_id
      found == sid \in DOMAIN r.sessions /\ r.sessions[sid].expires_at > now
      row == [user_id |-> DefaultUser, expires_at |-> now + SessionTimeout]
  IN  IF ~r.store_up
        THEN [r EXCEPT !.session_id = sid, !.raised = "OperationalError"]
      ELSE IF found
        THEN [r EXCEPT !.session_id = sid,
                       !.user_id = r.sessions[sid].user_id]
      ELSE IF sid \in DOMAIN r.sessions
        \* sessions.session_id is unique: the insert of a second row for an
        \* expired session fails at commit
        THEN [r EXCEPT !.session_id = sid, !.raised = "IntegrityError"]
      ELSE [r EXCEPT !.session_id = sid,
                     !.sessions = Put(r.sessions, sid, row),
                     !.user_id = row.user_id]

\* the rows _load_memory copies: those whose key and value are non-empty
Loadable(t, u) == {x \in RowsOf(t, u) : x.key # NoKey /\ x.value # ""}
LoadedMemory(t, u) ==
  LET rows == Loadable(t, u)
  IN  [k \in {x.key : x \in rows} |->
         (CHOOSE x \in rows : x.key = k).value]

\* _load_memory
LoadMemory(r) ==
  LET sid == r.session_id
      ctx == IF sid # NoSession /\ sid \in DOMAIN r.cache
               THEN Update(r.context, r.cache[sid].context)
               ELSE r.context
      ltm == IF r.user_id # NoUser
               THEN Update(r.long_term_memory,
                           LoadedMemory(r.memories, r.user_id))
               ELSE r.long_term_memory
  IN  [r EXCEPT !.context = ctx, !.long_term_memory = ltm]

LastMessage(r) == r.messages[Len(r.messages)].text

RequestFlags ==
  {"processing_remember", "processing_recall", "processing_delete",
   "command", "command_arg", "skip_llm_response", "command_result"}

\* _process_message looking for the keywords before it looks for the prefix
ProcessMessageKeywordsFirst(r) ==
  LET m == LastMessage(r)
      ctx == Pop(r.context, RequestFlags)
      lowered == LowerAll(m.words)
  IN  IF InText("remember", lowered)
        THEN [r EXCEPT !.context = Put(ctx, "processing_remember", TRUE)]
      ELSE IF InText("recall", lowered)
        THEN [r EXCEPT !.context = Put(ctx, "processing_recall", TRUE)]
      ELSE IF InText("delete", lowered)
              /\ (InText("memory", lowered) \/ InText("memories", lowered))
        THEN [r EXCEPT !.context = Put(ctx, "processing_delete", TRUE)]
      ELSE IF m.slash /\ m.words # << >>
        THEN LET command == Lower(m.words[1])
                 arg == Tail(m.words)
                 c1 == Put(ctx, "command", command)
             IN  [r EXCEPT !.context =
                    IF arg # << >> THEN Put(c1, "command_arg", arg) ELSE c1]
      ELSE [r EXCEPT !.context = ctx]

\* _process_message without the reset of the per-request flags
ProcessMessageKeepingFlags(r) ==
  LET m == LastMessage(r)
      ctx == r.context
      lowered == LowerAll(m.words)
  IN  IF m.slash /\ m.words # << >>
        THEN LET command == Lower(m.words[1])
                 arg == Tail(m.words)
                 c1 == Put(ctx, "command", command)
             IN  [r EXCEPT !.context =
                    IF arg # << >> THEN Put(c1, "command_arg", arg) ELSE c1]
      ELSE IF InText("remember", lowered)
        THEN [r EXCEPT !.context = Put(ctx, "processing_remember", TRUE)]
      ELSE IF InText("recall", lowered)
        THEN [r EXCEPT !.context = Put(ctx, "processing_recall", TRUE)]
      ELSE IF InText("delete", lowered)
              /\ (InText("memory", lowered) \/ InText("memories", lowered))
        THEN [r EXCEPT !.context = Put(ctx, "processing_delete", TRUE)]
      ELSE [r EXCEPT !.context = ctx]

\* _process_message
ProcessMessage(r) ==
  LET m == LastMessage(r)
      ctx == Pop(r.context, RequestFlags)
      lowered == LowerAll(m.words)
  IN  IF m.slash /\ m.words # << >>
        THEN LET command == Lower(m.words[1])
                 arg == Tail(m.words)
                 c1 == Put(ctx, "command", command)
             IN  [r EXCEPT !.context =
                    IF arg # << >> THEN Put(c1, "command_arg", arg) ELSE c1]
      ELSE IF InText("remember", lowered)
        THEN [r EXCEPT !.context = Put(ctx, "processing_remember", TRUE)]
      ELSE IF InText("recall", lowered)
        THEN [r EXCEPT !.context = Put(ctx, "processing_recall", TRUE)]
      ELSE IF InText("delete", lowered)
              /\ (InText("memory", lowered) \/ InText("memories", lowered))
        THEN [r EXCEPT !.context = Put(ctx, "processing_delete", TRUE)]
      ELSE [r EXCEPT !.context = ctx]

\* ------------------------------------------------------------------------
\* Command handlers
\* ------------------------------------------------------------------------
WithResult(r, x) == [r EXCEPT !.context = Put(r.context, "command_result", x)]
CommandArg(r) ==
  IF Has(r.context, "command_arg") THEN r.context["command_arg"] ELSE << >>

\* _command_save without the refresh of long_term_memory that follows the
\* commit
CommandSaveWithoutRefresh(r) ==
  IF r.user_id = NoUser
    THEN WithResult(r, Resp("save_unauthenticated", NoKey, 0))
  ELSE LET messages_to_save ==
             IF Len(r.messages) > 1
               THEN SubSeq(r.messages, 1, Len(r.messages) - 1) ELSE << >>
           memory_key == MemoryKeyAt(now)
           new_memory == Row(r.user_id, memory_key, "manual_save")
           added == [r EXCEPT !.memories = InsertRow(r.memories, new_memory),
                              !.cmd_db = TRUE,
                              !.saved_messages = messages_to_save]
       IN  WithResult(added, Resp("saved", memory_key, 0))

\* _command_save
CommandSave(r) ==
  IF r.user_id = NoUser
    THEN WithResult(r, Resp("save_unauthenticated", NoKey, 0))
  ELSE LET messages_to_save ==
             IF Len(r.messages) > 1
               THEN SubSeq(r.messages, 1, Len(r.messages) - 1) ELSE << >>
           memory_key == MemoryKeyAt(now)
           new_memory == Row(r.user_id, memory_key, "manual_save")
           added == [r EXCEPT !.memories = InsertRow(r.memories, new_memory),
                              !.cmd_db = TRUE,
                              !.saved_messages = messages_to_save]
       IN  LoadMemory(WithResult(added, Resp("saved", memory_key, 0)))

\* the number of lines _command_recall lists: ten previews at most
ListedCount(n) == IF n > 10 THEN 10 ELSE n

\* _command_recall answering every request with the list
CommandRecallListing(r) ==
  LET mems == r.long_term_memory
  IN  IF DOMAIN mems = {}
        THEN WithResult(r, Resp("no_memories", NoKey, 0))
      ELSE WithResult(r, Resp("list", NoKey,
                              ListedCount(Cardinality(DOMAIN mems))))

\* _command_recall
CommandRecall(r) ==
  LET mems == r.long_term_memory
      arg == CommandArg(r)
  IN  IF DOMAIN mems = {}
        THEN WithResult(r, Resp("no_memories", NoKey, 0))
      ELSE IF arg # << >>
        THEN IF arg \in DOMAIN mems /\ mems[arg] # ""
               THEN WithResult(r, Resp("preview", arg, 0))
               ELSE WithResult(r, Resp("not_found", arg, 0))
      ELSE WithResult(r, Resp("list", NoKey,
                              ListedCount(Cardinality(DOMAIN mems))))

\* _command_delete without its check of the argument: the delete is attempted
\* with an empty key
CommandDeleteUnguarded(r) ==
  LET key == CommandArg(r)
      hit == RowsAt(r.memories, r.user_id, key)
      deleted_count == SumOver(r.memories, hit)
  IN  IF r.user_id = NoUser
        THEN WithResult(r, Resp("delete_unauthenticated", NoKey, 0))
      ELSE IF deleted_count # 0
        THEN WithResult(
               [r EXCEPT !.memories = DeleteRows(r.memories, hit),
                         !.deleted = deleted_count,
                         !.cmd_db = TRUE,
                         !.long_term_memory = Pop(r.long_term_memory, {key})],
               Resp("deleted", key, 0))
      ELSE WithResult([r EXCEPT !.cmd_db = TRUE], Resp("not_found", key, 0))

\* _command_delete
CommandDelete(r) ==
  LET command_arg == CommandArg(r)
      key == command_arg
      hit == RowsAt(r.memories, r.user_id, key)
      deleted_count == SumOver(r.memories, hit)
  IN  IF command_arg = << >>
        THEN WithResult(r, Resp("delete_usage", NoKey, 0))
      ELSE IF r.user_id = NoUser
        THEN WithResult(r, Resp("delete_unauthenticated", NoKey, 0))
      ELSE IF deleted_count # 0
        THEN WithResult(
               [r EXCEPT !.memories = DeleteRows(r.memories, hit),
                         !.deleted = deleted_count,
                         !.cmd_db = TRUE,
                         !.long_term_memory = Pop(r.long_term_memory, {key})],
               Resp("deleted", key, 0))
      ELSE WithResult([r EXCEPT !.cmd_db = TRUE], Resp("not_found", key, 0))

\* the confirmed branch of _command_clear, for the rows hit that it deletes
ClearRows(r, hit) ==
  LET deleted_count == SumOver(r.memories, hit)
  IN  [r EXCEPT
         !.memories = DeleteRows(r.memories, hit),
         !.deleted = deleted_count,
         !.cmd_db = TRUE,
         !.long_term_memory = EmptyDict,
         !.context = Put(Pop(r.context, {"needs_clear_confirmation"}),
                         "command_result",
                         Resp("cleared", NoKey, deleted_count))]
ClearPrompt(r) ==
  WithResult([r EXCEPT !.context =
                Put(r.context, "needs_clear_confirmation", TRUE)],
             Resp("clear_prompt", NoKey, 0))

\* _command_clear taking an argument that starts with 'confirm' for the
\* confirmation
CommandClearFirstWord(r) ==
  LET command_arg == LowerAll(CommandArg(r))
  IN  IF command_arg = << >> \/ Head(command_arg) # "confirm"
        THEN ClearPrompt(r)
      ELSE ClearRows(r, RowsOf(r.memories, r.user_id))

\* _command_clear deleting without the filter on user_id
CommandClearEveryUser(r) ==
  IF LowerAll(CommandArg(r)) # <<"confirm">>
    THEN ClearPrompt(r)
  ELSE ClearRows(r, DOMAIN r.memories)

\* _command_clear
CommandClear(r) ==
  LET asked == WithResult(
                 [r EXCEPT !.context =
                    Put(r.context, "needs_clear_confirmation", TRUE)],
                 Resp("clear_prompt", NoKey, 0))
      command_arg == LowerAll(CommandArg(r))
      hit == RowsOf(r.memories, r.user_id)
      deleted_count == SumOver(r.memories, hit)
  IN  IF command_arg # <<"confirm">>
        THEN asked
      ELSE IF r.user_id = NoUser
        THEN [asked EXCEPT !.context =
                Pop(Put(asked.context, "command_result",
                        Resp("clear_unauthenticated", NoKey, 0)),
                    {"needs_clear_confirmation"})]
      ELSE [asked EXCEPT
              !.memories = DeleteRows(r.memories, hit),
              !.deleted = deleted_count,
              !.cmd_db = TRUE,
              !.long_term_memory = EmptyDict,
              !.context =
                Pop(Put(asked.context, "command_result",
                        Resp("cleared", NoKey, deleted_count)),
                    {"needs_clear_confirmation"})]

\* _command_help
CommandHelp(r) == WithResult(r, Resp("help", NoKey, 0))

\* _execute_command
ExecuteCommand(r) ==
  IF ~Has(r.context, "command")
    THEN r
  ELSE LET command == r.context["command"]
           done == CASE command = "save" -> CommandSave(r)
                     [] command = "recall" -> CommandRecall(r)
                     [] command = "delete" -> CommandDelete(r)
                     [] command = "clear" -> CommandClear(r)
                     [] command = "help" -> CommandHelp(r)
                     [] OTHER ->
                          WithResult(r, Resp("unknown_command",
                                             <<command>>, 0))
           c1 == Put(Put(done.context, "skip_llm_response", TRUE),
                     "skip_memory_save", TRUE)
       IN  [done EXCEPT !.context = Pop(c1, {"command", "command_arg"})]

\* ------------------------------------------------------------------------
\* Response and save stages
\* ------------------------------------------------------------------------
\* what the completion service does with one call
LlmOutcomes == {"text", "error"}

Append1(r, x) == [r EXCEPT !.messages = Append(r.messages, Reply(x))]

TransientFlags ==
  {"processing_delete", "processing_recall", "processing_remember",
   "delete_result", "skip_memory_save"}

\* _respond, given what the completion service does if it is called
Respond(r, llm) ==
  IF Truthy(r.context, "skip_llm_response")
    THEN LET response == IF Has(r.context, "command_result")
                           THEN r.context["command_result"]
                           ELSE Resp("command_executed", NoKey, 0)
         IN  [Append1(r, response) EXCEPT !.context =
                Pop(r.context, {"skip_llm_response", "command_result",
                                "needs_clear_confirmation"})]
  ELSE LET called == [r EXCEPT !.llm_calls = r.llm_calls + 1]
           response ==
             IF llm = "error" THEN Resp("llm_fallback", NoKey, 0)
             ELSE IF Truthy(r.context, "processing_delete")
               THEN IF Has(r.context, "delete_result")
                      THEN r.context["delete_result"]
                      ELSE Resp("deletion_processed", NoKey, 0)
             ELSE IF Truthy(r.context, "processing_recall")
               THEN Resp("completion_and_memories", NoKey,
                         Cardinality(DOMAIN r.long_term_memory))
             ELSE IF Truthy(r.context, "processing_remember")
               THEN Resp("conversation_saved", NoKey, 0)
             ELSE IF llm = "empty" THEN Resp("", NoKey, 0)
             ELSE Resp("completion", NoKey, 0)
           said == IF response.t # "" THEN Append1(called, response)
                   ELSE called
       IN  [said EXCEPT !.context = Pop(r.context, TransientFlags)]

EphemeralKeys ==
  {"command_result", "skip_llm_response", "skip_memory_save",
   "needs_clear_confirmation", "command", "command_arg"}

\* _save_memory dropping the user's rows on a deletion request
SaveMemoryDropping(r) ==
  LET sanitized_context == Pop(r.context, EphemeralKeys)
      entry == [context |-> sanitized_context,
                expires_at |-> now + SessionTimeout]
      cached == IF r.session_id # NoSession /\ DOMAIN r.context # {}
                  THEN [r EXCEPT !.cache = Put(r.cache, r.session_id, entry)]
                  ELSE r
      new_memory == Row(r.user_id, ConversationKeyAt(now), "explicitly_saved")
  IN  IF Truthy(r.context, "processing_delete")
        THEN [cached EXCEPT
                !.memories = DeleteRows(r.memories,
                                        RowsOf(r.memories, r.user_id))]
      ELSE IF Truthy(r.context, "skip_memory_save")
        THEN [cached EXCEPT !.context = Pop(r.context, {"skip_memory_save"})]
      ELSE IF r.user_id # NoUser /\ Truthy(r.context, "processing_remember")
        THEN [cached EXCEPT !.memories = InsertRow(r.memories, new_memory)]
      ELSE cached

\* _save_memory writing the whole context to the session cache
SaveMemoryUnsanitized(r) ==
  LET entry == [context |-> r.context, expires_at |-> now + SessionTimeout]
      cached == IF r.session_id # NoSession /\ DOMAIN r.context # {}
                  THEN [r EXCEPT !.cache = Put(r.cache, r.session_id, entry)]
                  ELSE r
      new_memory == Row(r.user_id, ConversationKeyAt(now), "explicitly_saved")
  IN  IF Truthy(r.context, "processing_delete")
         \/ Truthy(r.context, "skip_memory_save")
        THEN [cached EXCEPT !.context = Pop(r.context, {"skip_memory_save"})]
      ELSE IF r.user_id # NoUser /\ Truthy(r.context, "processing_remember")
        THEN [cached EXCEPT !.memories = InsertRow(r.memories, new_memory)]
      ELSE cached

\* _save_memory
SaveMemory(r) ==
  LET sanitized_context == Pop(r.context, EphemeralKeys)
      entry == [context |-> sanitized_context,
                expires_at |-> now + SessionTimeout]
      cached == IF r.session_id # NoSession /\ DOMAIN r.context # {}
                  THEN [r EXCEPT !.cache = Put(r.cache, r.session_id, entry)]
                  ELSE r
      new_memory == Row(r.user_id, ConversationKeyAt(now), "explicitly_saved")
  IN  IF Truthy(r.context, "processing_delete")
         \/ Truthy(r.context, "skip_memory_save")
        THEN [cached EXCEPT !.context = Pop(r.context, {"skip_memory_save"})]
      ELSE IF r.user_id # NoUser /\ Truthy(r.context, "processing_remember")
        THEN [cached EXCEPT !.memories = InsertRow(r.memories, new_memory)]
      ELSE cached

\* ------------------------------------------------------------------------
\* The deletion step
\* ------------------------------------------------------------------------
\* the answers of the completion service to the decision prompt, as the
\* sequence of their parts; " " is white space
Decisions ==
  { <<"DELETE_ALL">>, <<"DELETE_ALL", " ">>, <<"DELETE_ALL", ":", "asked">>,
    <<"DELETE_ALL", ".">>, <<"delete_all">>,
    <<"DELETE_SPECIFIC", ":", "k1">>, <<"DELETE_SPECIFIC", ":", " ", "k1">>,
    <<"DELETE_SPECIFIC", ":", "k3">>,
    <<"DELETE_NONE", ":", "unsafe">>, <<"DELETE_NONE">>, <<"unsure">> }
LlmError == <<"error">>    \* the call raises

\* str.strip()
RECURSIVE StripLeft(_)
StripLeft(d) ==
  IF d # << >> /\ Head(d) = " " THEN StripLeft(Tail(d)) ELSE d
RECURSIVE StripRight(_)
StripRight(d) ==
  IF d # << >> /\ d[Len(d)] = " "
    THEN StripRight(SubSeq(d, 1, Len(d) - 1)) ELSE d
Strip(d) == StripRight(StripLeft(d))

\* decision.startswith(tag + ":")
StartsWithTag(d, tag) == Len(d) >= 2 /\ d[1] = tag /\ d[2] = ":"
\* decision.split(":", 1)[1].strip()
AfterColon(d) == Strip(SubSeq(d, 3, Len(d)))

delete_all_patterns ==
  { <<"delete", "all", "memories">>, <<"clear", "all", "memories">>,
    <<"remove", "everything">>, <<"delete", "all">>, <<"clear", "memories">>,
    <<"remove", "all", "memories">>, <<"delete", "everything">>,
    <<"clear", "all">>, <<"remove", "all">> }
IsExplicitDeleteAll(m) ==
  \E pattern \in delete_all_patterns : PhraseIn(pattern, LowerAll(m.words))

WithDeleteResult(r, x) ==
  [r EXCEPT !.context = Put(r.context, "delete_result", x)]

\* _execute_delete_all
ExecuteDeleteAll(r) ==
  LET hit == RowsOf(r.memories, r.user_id)
      deleted_count == SumOver(r.memories, hit)
  IN  WithDeleteResult(
        [r EXCEPT !.memories = DeleteRows(r.memories, hit),
                  !.deleted = deleted_count,
                  !.long_term_memory = EmptyDict],
        Resp("deleted_all", NoKey, deleted_count))

\* _execute_delete_specific; found is the dict of the rows the step has read
ExecuteDeleteSpecific(r, memory_key, found) ==
  LET hit == RowsAt(r.memories, r.user_id, memory_key)
      deleted_count == SumOver(r.memories, hit)
  IN  IF memory_key \notin DOMAIN found
        THEN WithDeleteResult(r, Resp("not_found", memory_key, 0))
      ELSE IF deleted_count > 0
        THEN WithDeleteResult(
               [r EXCEPT !.memories = DeleteRows(r.memories, hit),
                         !.deleted = deleted_count,
                         !.long_term_memory =
                            Pop(r.long_term_memory, {memory_key})],
               Resp("deleted_one", memory_key, 0))
      ELSE WithDeleteResult(r, Resp("delete_failed", memory_key, 0))

\* the dispatch taking every answer that starts with DELETE_ALL for delete-all
DecideByPrefix(r, answer, found) ==
  LET decision == Strip(answer)
      called == [r EXCEPT !.llm_calls = r.llm_calls + 1]
  IN  IF answer = LlmError
        THEN WithDeleteResult(called, Resp("deletion_error", NoKey, 0))
      ELSE IF decision # << >> /\ Head(decision) = "DELETE_ALL"
        THEN ExecuteDeleteAll(called)
      ELSE IF StartsWithTag(decision, "DELETE_SPECIFIC")
        THEN ExecuteDeleteSpecific(called, AfterColon(decision), found)
      ELSE IF StartsWithTag(decision, "DELETE_NONE")
        THEN WithDeleteResult(called,
                              Resp("cannot_delete", AfterColon(decision), 0))
      ELSE WithDeleteResult(called, Resp("not_sure", NoKey, 0))

\* the dispatch of _process_memory_deletion on the service's answer
Decide(r, answer, found) ==
  LET decision == Strip(answer)
      called == [r EXCEPT !.llm_calls = r.llm_calls + 1]
  IN  IF answer = LlmError
        THEN WithDeleteResult(called, Resp("deletion_error", NoKey, 0))
      ELSE IF decision = <<"DELETE_ALL">> \/ StartsWithTag(decision, "DELETE_ALL")
        THEN ExecuteDeleteAll(called)
      ELSE IF StartsWithTag(decision, "DELETE_SPECIFIC")
        THEN ExecuteDeleteSpecific(called, AfterColon(decision), found)
      ELSE IF StartsWithTag(decision, "DELETE_NONE")
        THEN WithDeleteResult(called,
                              Resp("cannot_delete", AfterColon(decision), 0))
      ELSE WithDeleteResult(called, Resp("not_sure", NoKey, 0))

\* _process_memory_deletion asking the service before it looks for the
\* delete-all phrases
ProcessMemoryDeletionAsking(r, answer) ==
  LET found == LoadedMemory(r.memories, r.user_id)
      decided == Decide(r, answer, found)
  IN  IF r.user_id = NoUser
        THEN r
      ELSE IF ~r.store_up
        THEN [r EXCEPT !.raised = "OperationalError"]
      ELSE IF DOMAIN found = {}
        THEN WithDeleteResult(r, Resp("nothing_to_delete", NoKey, 0))
      ELSE IF IsExplicitDeleteAll(LastMessage(r))
        THEN ExecuteDeleteAll([r EXCEPT !.llm_calls = r.llm_calls + 1])
      ELSE decided

\* _process_memory_deletion
ProcessMemoryDeletion(r, answer) ==
  LET found == LoadedMemory(r.memories, r.user_id)
  IN  IF r.user_id = NoUser
        THEN r
      ELSE IF ~r.store_up
        THEN [r EXCEPT !.raised = "OperationalError"]
      ELSE IF DOMAIN found = {}
        THEN WithDeleteResult(r, Resp("nothing_to_delete", NoKey, 0))
      ELSE IF IsExplicitDeleteAll(LastMessage(r))
        THEN ExecuteDeleteAll(r)
      ELSE Decide(r, answer, found)

\* ------------------------------------------------------------------------
\* Operations
\* ------------------------------------------------------------------------
NoResponse == [src |-> "none", text |-> Resp("none", NoKey, 0)]
NoMessage == Txt(<< >>)
NoAnswer == << >>      \* the run has not asked for a deletion decision
IdleTurn ==
  [kind |-> "idle", msg |-> NoMessage, session_id |-> NoSession,
   user_id |-> NoUser, raised |-> NotRaised, response |-> NoResponse,
   deleted |-> 0, llm_calls |-> 0, cmd_db |-> FALSE,
   ltm_loaded |-> {}, ltm |-> {}, answer |-> NoAnswer,
   saved_messages |-> << >>, flags_loaded |-> {},
   ltm_cmd |-> {}, rows_cmd |-> {}]

\* what a run returned: loaded is the run after its load stage, final the
\* run at its end
TurnOf(kind, msg, loaded, final, response) ==
  [kind |-> kind, msg |-> msg, session_id |-> final.session_id,
   user_id |-> final.user_id, raised |-> final.raised,
   response |-> response, deleted |-> final.deleted,
   llm_calls |-> final.llm_calls, cmd_db |-> final.cmd_db,
   ltm_loaded |-> DOMAIN loaded.long_term_memory,
   ltm |-> DOMAIN final.long_term_memory, answer |-> NoAnswer,
   saved_messages |-> final.saved_messages,
   flags_loaded |-> DOMAIN loaded.context,
   ltm_cmd |-> {}, rows_cmd |-> {}]

\* the turn of a run that was r4 at the end of its command stage: the keys
\* of its long_term_memory and the rows the store held for its user
AtCommandStage(t, r4) ==
  [t EXCEPT !.ltm_cmd = DOMAIN r4.long_term_memory,
            !.rows_cmd = RowsOf(r4.memories, r4.user_id)]

\* the session ids a request may end up with: its own, or an unused one
SessionChoices(sid) ==
  IF sid = NoSession
    THEN SessionIds \ ((DOMAIN sessions) \cup (DOMAIN cache))
    ELSE {sid}

\* the completion service's behaviours that matter to a run
LlmChoices(r) ==
  IF Truthy(r.context, "skip_llm_response") THEN {"text"} ELSE LlmOutcomes

IsPrompt(response) ==
  response.src = "reply" /\ response.text.t = "clear_prompt"

\* the records a '/save' turn has reported, without those of which the run
\* has deleted a row
StillSaved(final, t) ==
  LET kept == {p \in saved :
                 CountAt(final.memories, p[1], p[2])
                   >= CountAt(memories, p[1], p[2])}
  IN  IF t.response.src = "reply" /\ t.response.text.t = "saved"
        THEN kept \cup {<<t.user_id, t.response.text.key>>}
        ELSE kept

Commit(final, t) ==
  /\ RowCount(final.memories) <= MaxRows
  /\ sessions' = final.sessions
  /\ memories' = final.memories
  /\ cache' = final.cache
  /\ turn' = t
  /\ prompted' = IF IsPrompt(t.response) THEN prompted \cup {t.user_id}
                 ELSE prompted
  /\ saved' = StillSaved(final, t)
  /\ UNCHANGED <<now, redis, procs>>

\* the request's session and the store's state are drawn first: the
\* authentication stage does not read the message
\* AxiomOSAgent.run, for a message among msgs
Run(msgs) ==
  \E sid \in SessionIds \cup {NoSession}, up \in BOOLEAN :
    \E fresh \in SessionChoices(sid) :
      \E r1 \in {Authenticate(InitialState(NoMessage, sid, up), fresh)} :
          IF r1.raised # NotRaised
            THEN Commit(r1, TurnOf("run", NoMessage, r1, r1, NoResponse))
          ELSE \E msg \in msgs :
                 \E r2 \in {LoadMemory(
                              [r1 EXCEPT !.messages = <<Request(msg)>>])} :
                   \E r4 \in {ExecuteCommand(ProcessMessage(r2))} :
                     \E llm \in LlmChoices(r4) :
                       \E r6 \in {SaveMemory(Respond(r4, llm))} :
                         Commit(r6, AtCommandStage(
                                      TurnOf("run", msg, r2, r6,
                                             r6.messages[Len(r6.messages)]),
                                      r4))

\* the command short-circuit of run_stream
StreamCommand(r4) ==
  LET response == IF Has(r4.context, "command_result")
                    THEN r4.context["command_result"]
                    ELSE Resp("command_executed", NoKey, 0)
  IN  SaveMemory([Append1(r4, response) EXCEPT !.context =
                    Pop(r4.context,
                        {"skip_llm_response", "command_result",
                         "needs_clear_confirmation", "skip_memory_save"})])

\* the streamed completion of run_stream and the text of its last chunk
StreamCompletion(r4, llm) ==
  LET called == [r4 EXCEPT !.llm_calls = r4.llm_calls + 1]
  IN  CASE llm = "text" ->
             SaveMemory(Append1(called, Resp("completion", NoKey, 0)))
        [] llm = "empty" -> SaveMemory(called)
        [] OTHER -> called
FinalResponse(llm) ==
  CASE llm = "text" -> Resp("completion", NoKey, 0)
    [] llm = "empty" -> Resp("", NoKey, 0)
    [] OTHER -> Resp("stream_error", NoKey, 0)

\* AxiomOSAgent.run_stream, consumed to its end, for a message among msgs
RunStream(msgs) ==
  \E sid \in SessionIds \cup {NoSession}, up \in BOOLEAN :
    \E fresh \in SessionChoices(sid) :
      \E r1 \in {Authenticate(InitialState(NoMessage, sid, up), fresh)} :
          IF r1.raised # NotRaised
            THEN Commit(r1, TurnOf("run_stream", NoMessage, r1, r1,
                                   NoResponse))
          ELSE \E msg \in msgs :
                 \E r2 \in {LoadMemory(
                              [r1 EXCEPT !.messages = <<Request(msg)>>])} :
                   \E r4 \in {ExecuteCommand(ProcessMessage(r2))} :
                     IF Truthy(r4.context, "skip_llm_response")
                       THEN \E r6 \in {StreamCommand(r4)} :
                              Commit(r6, AtCommandStage(
                                           TurnOf("run_stream", msg, r2, r6,
                                             r6.messages[Len(r6.messages)]),
                                           r4))
                       ELSE \E llm \in LlmOutcomes :
                              \E r6 \in {StreamCompletion(r4, llm)} :
                                Commit(r6, AtCommandStage(
                                             TurnOf("run_stream", msg, r2, r6,
                                               Reply(FinalResponse(llm))),
                                             r4))

\* the messages and the states the deletion step is applied to
DeletionMessages ==
  { Txt(<<"delete", "all", "memories">>), Txt(<<"Delete", "my", "memory">>),
    Txt(<<"please", "Clear", "All">>) }
DeletionState(msg, u, up) ==
  [InitialState(msg, NoSession, up) EXCEPT
     !.user_id = u,
     !.context = Put(EmptyDict, "processing_delete", TRUE),
     !.long_term_memory = IF u = NoUser THEN EmptyDict
                          ELSE LoadedMemory(memories, u)]

\* the service's answers that matter to a step: all of them when the step
\* gets as far as asking
AsksService(r) ==
  /\ r.user_id # NoUser
  /\ r.store_up
  /\ DOMAIN LoadedMemory(r.memories, r.user_id) # {}
  /\ ~IsExplicitDeleteAll(LastMessage(r))
AnswerChoices(r) ==
  IF AsksService(r) THEN Decisions \cup {LlmError} ELSE {NoAnswer}

\* AxiomOSAgent._process_memory_deletion, applied to a loaded state
DeletionStep ==
  \E msg \in DeletionMessages, u \in Users \cup {NoUser}, up \in BOOLEAN :
    \E r0 \in {DeletionState(msg, u, up)} :
      \E answer \in AnswerChoices(r0) :
        \E r1 \in {ProcessMemoryDeletion(r0, answer)} :
          Commit(r1, [TurnOf("deletion_step",
                             IF r1.raised # NotRaised THEN NoMessage ELSE msg,
                             r0, r1,
                             IF Has(r1.context, "delete_result")
                               THEN Reply(r1.context["delete_result"])
                               ELSE NoResponse)
                        EXCEPT !.answer = answer])

\* POST /memory/{user_id}: query one row for the key, then update or insert
\* for a key among keys
PostKeys == {<<"k1">>}
StepKeys == {<<"k1">>, <<"k2">>}
PostValues == {"", "v"}
SaveMemoryEndpoint(keys) ==
  \E u \in Users, key \in keys, value \in PostValues :
    /\ LET hit == RowsAt(memories, u, key)
       IN  IF hit # {}
             THEN \E existing_memory \in hit :
                    memories' =
                      InsertRow(
                        IF memories[existing_memory] = 1
                          THEN DeleteRows(memories, {existing_memory})
                          ELSE [memories EXCEPT ![existing_memory] = @ - 1],
                        Row(u, key, value))
             ELSE /\ RowCount(memories) < MaxRows
                  /\ memories' = InsertRow(memories, Row(u, key, value))
    /\ turn' = IdleTurn
    /\ UNCHANGED <<now, sessions, cache, prompted, saved, redis, procs>>

\* RedisManager.__init__ (client is None, no fallback, nothing in
\* memory_storage), with a Redis server that answers
RedisManager ==
  [client |-> FALSE, fallback_mode |-> FALSE,
   memory_storage |-> [s \in {} |-> [context |-> EmptyDict]],
   reachable |-> TRUE]

\* the requests that may be in flight together, before they start
Requests == {"a", "b"}
NotStarted == [pc |-> "idle"]

\* a second passes: session rows and cache entries whose time has come expire
Tick ==
  /\ now < MaxClock
  /\ now' = now + 1
  /\ cache' = [s \in {x \in DOMAIN cache : cache[x].expires_at > now + 1}
                 |-> cache[s]]
  /\ turn' = IdleTurn
  /\ UNCHANGED <<sessions, memories, prompted, saved, redis, procs>>

Init ==
  /\ now = 0
  /\ sessions = [s \in {} |-> [user_id |-> DefaultUser, expires_at |-> 0]]
  /\ memories = EmptyTable
  /\ cache = [s \in {} |-> [context |-> EmptyDict, expires_at |-> 0]]
  /\ turn = IdleTurn
  /\ prompted = {}
  /\ saved = {}
  /\ redis = RedisManager
  /\ procs = [p \in Requests |-> NotStarted]

Next ==
  \/ Run(Messages)
  \/ RunStream(Messages)
  \/ SaveMemoryEndpoint(PostKeys)
  \/ Tick

Spec == Init /\ [][Next]_vars

\* the deletion step applied to the tables the memory endpoint has filled
NextDeletion ==
  \/ DeletionStep
  \/ SaveMemoryEndpoint(StepKeys)

SpecDeletion == Init /\ [][NextDeletion]_vars

\* the turns that save and recall, with the memory endpoint writing the key
\* of the first second
TurnKeys == { MemoryKeyAt(0) }
NextTurns ==
  \/ Run(TurnMessages)
  \/ RunStream(TurnMessages)
  \/ SaveMemoryEndpoint(TurnKeys)
  \/ Tick

SpecTurns == Init /\ [][NextTurns]_vars

\* ------------------------------------------------------------------------
\* Properties
\* ------------------------------------------------------------------------
IsPipeline(t) == t.kind \in {"run", "run_stream"}
IsStep(t) == t.kind = "deletion_step"
ClearConfirmMessages ==
  { Cmd(<<"clear", "confirm">>), Cmd(<<"Clear", "CONFIRM">>) }
UnconfirmedClearMessages == ClearMessages \ ClearConfirmMessages
DeleteKeyMessages == DeleteMessages \ { Cmd(<<"delete">>) }
Said(t, x) == t.response = Reply(x)
KeysIn(t) == {x.key : x \in DOMAIN t}
IsCommand(m) == m.slash /\ m.words # << >>
IsSaveCommand(m) == IsCommand(m) /\ Lower(m.words[1]) = "save"
IsRememberPhrase(m) == ~IsCommand(m) /\ InText("remember", LowerAll(m.words))
Copies(t, x) == IF x \in DOMAIN t THEN t[x] ELSE 0
RecallKeyMessages == RecallMessages \ { Cmd(<<"recall">>) }

\* C1 (as claimed): the clear command deletes durable records only in a turn
\* that carries the confirmation token and that follows an earlier '/clear'
\* turn of the user which returned the confirmation prompt.
C1_ClearNeedsEarlierPrompt ==
  (IsPipeline(turn) /\ turn.msg \in ClearMessages /\ turn.deleted > 0)
    => (turn.msg \in ClearConfirmMessages /\ turn.user_id \in prompted)

\* C2: a '/clear' turn without the argument 'confirm' (compared without
\* regard to case) leaves the long-term records of every user unchanged and
\* answers with the confirmation prompt.
C2_UnconfirmedClearKeepsRecords ==
  [][ (IsPipeline(turn') /\ turn'.msg \in UnconfirmedClearMessages)
        => /\ memories' = memories
           /\ Said(turn', Resp("clear_prompt", NoKey, 0)) ]_vars
C2_Witness ==
  /\ IsPipeline(turn)
  /\ turn.msg = Cmd(<<"clear", "confirm", "now">>)
  /\ Said(turn, Resp("clear_prompt", NoKey, 0))
  /\ CountOf(memories, turn.user_id) > 0

UnrecognisedAnswers ==
  { <<"DELETE_ALL", ".">>, <<"delete_all">>, <<"DELETE_NONE">>, <<"unsure">> }
IsExactForm(d) ==
  \/ d = <<"DELETE_ALL">>
  \/ Len(d) >= 3 /\ d[1] \in {"DELETE_SPECIFIC", "DELETE_NONE"} /\ d[2] = ":"
C5_OnlyExactFormsDelete ==
  (IsStep(turn) /\ turn.answer # NoAnswer /\ ~IsExactForm(Strip(turn.answer)))
    => turn.deleted = 0

\* C6 (as claimed): a pipeline run whose message is 'delete all memories'
\* leaves the user without any durable record.
C6_DeleteAllPhraseDeletes ==
  (IsPipeline(turn) /\ turn.msg = Txt(<<"delete", "all", "memories">>))
    => CountOf(memories, turn.user_id) = 0

C8_DeleteRemovesOne ==
  [][ (IsPipeline(turn') /\ turn'.msg \in DeleteKeyMessages)
        => LET u == turn'.user_id
               key == Tail(turn'.msg.words)
           IN  /\ CountAt(memories, u, key) > 0
                    => /\ Said(turn', Resp("deleted", key, 0))
                       /\ RowCount(memories') = RowCount(memories) - 1
                       /\ CountAt(memories', u, key) = 0
               /\ CountAt(memories, u, key) = 0
                    => /\ Said(turn', Resp("not_found", key, 0))
                       /\ memories' = memories
               /\ (IsPipeline(turn) /\ turn.msg = turn'.msg
                     /\ Said(turn, Resp("deleted", key, 0)))
                    => Said(turn', Resp("not_found", key, 0)) ]_vars

\* C9: a '/delete' turn without a key answers with the usage message; the
\* delete handler opens no durable-store session and changes neither a
\* durable record nor the in-memory long_term_memory.
C9_DeleteWithoutKeyIsUsage ==
  [][ (IsPipeline(turn') /\ turn'.msg = Cmd(<<"delete">>))
        => /\ Said(turn', Resp("delete_usage", NoKey, 0))
           /\ ~turn'.cmd_db
           /\ memories' = memories
           /\ turn'.ltm = turn'.ltm_loaded ]_vars
C9_Witness ==
  /\ IsPipeline(turn)
  /\ turn.msg = Cmd(<<"delete">>)
  /\ Said(turn, Resp("delete_usage", NoKey, 0))
  /\ turn.ltm # {}

\* C10: across the turns of the pipeline and the passing of time, a record of
\* a user goes away only in a turn that executes a delete with a key or a
\* confirmed clear: no other turn and no expiry of a session row or of a
\* cache entry removes one.
C10_OnlyDeleteAndClearRemove ==
  [][ (\E u \in Users, k \in KeysIn(memories) :
         CountAt(memories', u, k) < CountAt(memories, u, k))
        => /\ IsPipeline(turn')
           /\ turn'.msg \in DeleteKeyMessages \cup ClearConfirmMessages ]_vars
C10_Witness ==
  \E sid \in DOMAIN sessions :
    /\ sessions[sid].expires_at <= now
    /\ sid \notin DOMAIN cache
    /\ CountOf(memories, sessions[sid].user_id) > 0

\* ------------------------------------------------------------------------
\* CommandDetector (src/src/services/conversation_context_builder.py)
\* ------------------------------------------------------------------------
\* A regular expression of the table is a set of word patterns, one for each
\* way to take its optional parts and its alternatives of several words.  A
\* word pattern is a sequence of items: an item is the set of the words
\* allowed at one position (\b and \s+ separate the positions), or Gap for
\* '.*'.
Gap == {}
Phrase(ws) == [i \in 1..Len(ws) |-> {ws[i]}]
It == {"this", "that", "it"}
\* don['(U+2019)]t: "don~t" stands for the word with the typographic apostrophe
Dont == {"don't", "don~t"}
ForLater == { Phrase(<<"for", "later">>), Phrase(<<"next", "time">>) }
Mem == {"memory", "memories"}

remember_patterns ==
  << { Phrase(<<"remember">>) \o <<It>> },
     { Phrase(<<"remember">>) \o <<It>> \o tail :
         tail \in { << >>, Phrase(<<"for", "later">>),
                    Phrase(<<"for", "next", "time">>),
                    Phrase(<<"when", "I", "ask">>),
                    Phrase(<<"next", "time">>) } },
     { Phrase(<<"please", "remember">>) \o <<It>> },
     { Phrase(<<"can", "you", "remember">>) \o <<It>> },
     { Phrase(<<"could", "you", "remember">>) \o <<It>> },
     { Phrase(<<"try", "to", "remember">>) \o <<It>> },
     { <<Dont, {"forget"}, It>> },
     { Phrase(<<"do", "not", "forget">>) \o <<It>> },
     { <<Dont, {"forget"}, {"about"}, It>> },
     { Phrase(<<"do", "not", "forget", "about">>) \o <<It>> },
     { <<{"save"}, Gap, {"conversation"} \cup It>> },
     { <<{"please"}, {"save"}, Gap, {"conversation"} \cup It>> },
     { <<{"can"}, {"you"}, {"save"}, Gap, {"conversation"} \cup It>> },
     { <<{"store"}, Gap, {"memory"} \cup It>> },
     { <<{"put"}, It, {"in"}, {"memory"}>> },
     { <<{"add"}, It, {"to"}, {"your"}, {"memory"}>> },
     { <<{"keep"}, It, {"in"}, {"mind"}>> },
     { <<{"please"}, {"keep"}, It, {"in"}, {"mind"}>> },
     { <<{"can"}, {"you"}, {"keep"}, It, {"in"}, {"mind"}>> },
     { Phrase(<<"hold", "on", "to">>) \o <<It>> },
     { Phrase(<<"keep", "track", "of">>) \o <<It>> },
     { <<{"keep"}, It, {"for"}, {"later"}>> },
     { <<{"can"}, {"you"}, {"keep"}, It, {"for"}, {"later"}>> },
     { <<{"could"}, {"you"}, {"keep"}, It, {"for"}, {"later"}>> },
     { Phrase(<<"make", "a", "note", "of">>) \o <<It>> },
     { Phrase(<<"please", "make", "a", "note", "of">>) \o <<It>> },
     { <<{"note"}, It, {"for"}, {"later"}>> },
     { Phrase(<<"remember", "what", "I", "just", "said">>) },
     { Phrase(<<"remember", "what", "I", "am", "about", "to", "say">>) },
     { Phrase(<<"remember", "the", "following">>) },
     { Phrase(<<"remember", "this", "information">>) },
     { Phrase(<<"remember", "this", "detail">>) },
     { Phrase(<<"remember", "this", "message">>) },
     { Phrase(<<"remember", "this", "note">>) },
     { Phrase(<<"remember", "this", "for", "me">>) },
     { Phrase(<<"I", "need", "you", "to", "remember">>) \o <<It>> },
     { Phrase(<<"I", "want", "you", "to", "remember">>) \o <<It>> },
     { Phrase(<<"I", "need", "you", "to", "remember">>) \o <<Gap>> \o tail :
         tail \in ForLater },
     { Phrase(<<"I", "want", "you", "to", "remember">>) \o <<Gap>> \o tail :
         tail \in ForLater },
     { <<{"commit"}, It, {"to"}, {"memory"}>> },
     { <<{"store"}, It, {"away"}>> },
     { <<{"put"}, It, {"in", "into"}>> \o your \o <<{"memory"}>> :
         your \in { << >>, <<{"your"}>> } },
     { <<{"put"}, It, {"to"}, {"memory"}>> },
     { <<{"put"}, It, {"in"}, {"your"}>> \o long \o <<{"memory"}>> :
         long \in { <<{"long-term"}>>, <<{"longterm"}>>,
                    <<{"long"}, {"term"}>> } },
     { <<{"put"}, It, {"away"}, {"in"}, {"memory"}>> },
     { <<{"put"}, It, {"aside"}, {"for"}, {"later"}>> } >>

recall_patterns ==
  << { Phrase(<<"recall">>) },
     { Phrase(<<"please", "recall">>) },
     { Phrase(<<"can", "you", "recall">>) },
     { Phrase(<<"could", "you", "recall">>) },
     { Phrase(<<"what", "do", "you", "remember">>) },
     { Phrase(<<"what", "can", "you", "remember">>) },
     { Phrase(<<"do", "you", "remember">>) \o <<Gap>> },
     { Phrase(<<"can", "you", "remember">>) \o <<Gap>> },
     { Phrase(<<"could", "you", "remember">>) \o <<Gap>> },
     { Phrase(<<"tell", "me", "about">>) \o <<Gap, Mem>> },
     { Phrase(<<"tell", "me", "what", "you", "remember">>) },
     { Phrase(<<"show", "me", "what", "you", "remember">>) },
     { Phrase(<<"show", "me">>) \o <<Gap, Mem>> },
     { <<{"show"}, Gap>> \o tail :
         tail \in { Phrase(<<"what", "you", "remember">>),
                    Phrase(<<"your", "memories">>) } },
     { Phrase(<<"what", "do", "you", "recall">>) },
     { Phrase(<<"what", "can", "you", "recall">>) },
     { Phrase(<<"give", "me">>) \o your \o <<Mem, Gap>> :
         your \in { << >>, <<{"your"}>> } },
     { Phrase(<<"give", "me", "what", "you", "remember">>) },
     { Phrase(<<"remind", "me", "what", "you", "remember">>) } >>

help_patterns ==
  << { Phrase(<<"help">>) },
     { Phrase(<<"what", "can", "you", "do">>) },
     { <<{"command", "commands"}>> },
     { <<{"show"}, Gap, {"help"}>> } >>

clear_patterns ==
  << { Phrase(<<"clear">>) },
     { Phrase(<<"reset">>) },
     { Phrase(<<"start", "over">>) },
     { <<{"clear"}, {"context", "conversation", "memory"}>> } >>

\* CommandDetector.command_patterns, in the order of the dict
command_patterns ==
  << [tag |-> "remember", patterns |-> remember_patterns],
     [tag |-> "recall", patterns |-> recall_patterns],
     [tag |-> "help", patterns |-> help_patterns],
     [tag |-> "clear", patterns |-> clear_patterns] >>

\* the items of a word pattern from the i-th on match the words from the
\* j-th on
RECURSIVE MatchFrom(_, _, _, _)
MatchFrom(pat, i, ws, j) ==
  IF i > Len(pat) THEN TRUE
  ELSE IF pat[i] = Gap
    THEN \E k \in j..(Len(ws) + 1) : MatchFrom(pat, i + 1, ws, k)
  ELSE j <= Len(ws) /\ ws[j] \in pat[i] /\ MatchFrom(pat, i + 1, ws, j + 1)

\* re.search(pattern, message_lower)
Search(pattern, ws) ==
  \E pat \in pattern : \E j \in 1..(Len(ws) + 1) : MatchFrom(pat, 1, ws, j)

\* the loop over the patterns of one tag from the j-th on, which stops at
\* the first pattern that matches
RECURSIVE ScanPatterns(_, _, _)
ScanPatterns(patterns, j, ws) ==
  IF j > Len(patterns) THEN FALSE
  ELSE IF Search(patterns[j], ws) THEN TRUE
  ELSE ScanPatterns(patterns, j + 1, ws)

\* the loop over the tags from the i-th on
RECURSIVE DetectFrom(_, _, _)
DetectFrom(i, ws, detected) ==
  IF i > Len(command_patterns) THEN detected
  ELSE DetectFrom(i + 1, ws,
                  IF ScanPatterns(command_patterns[i].patterns, 1, ws)
                    THEN Append(detected, command_patterns[i].tag)
                    ELSE detected)

\* the two loops without the break: the tag is appended for every pattern
\* that matches
RECURSIVE AppendMatches(_, _, _, _)
AppendMatches(entry, j, ws, detected) ==
  IF j > Len(entry.patterns) THEN detected
  ELSE AppendMatches(entry, j + 1, ws,
                     IF Search(entry.patterns[j], ws)
                       THEN Append(detected, entry.tag) ELSE detected)
RECURSIVE DetectRepeatingFrom(_, _, _)
DetectRepeatingFrom(i, ws, detected) ==
  IF i > Len(command_patterns) THEN detected
  ELSE DetectRepeatingFrom(i + 1, ws,
                           AppendMatches(command_patterns[i], 1, ws, detected))
DetectCommandsRepeating(message) ==
  IF message = << >> THEN << >>
  ELSE DetectRepeatingFrom(1, LowerAll(message), << >>)

\* CommandDetector.detect_commands
detect_commands(message) ==
  IF message = << >> THEN << >>
  ELSE DetectFrom(1, LowerAll(message), << >>)

\* ------------------------------------------------------------------------
\* The detection functions applied to drawn inputs
\* ------------------------------------------------------------------------
MaxWords == 3          \* words of a message given to detect_commands
Vocabulary == {"Remember", "this", "recall", "help", "clear", "can", "you"}
DetectorMessages ==
  UNION { [1..n -> Vocabulary] : n \in 0..MaxWords }

\* the messages and the loaded contexts given to _process_message
CommandNames == {"save", "Recall", "note"}
Remainders ==
  { << >>, <<"Remember", "this">>, <<"recall", "it">>,
    <<"delete", "my", "memory">>, <<"k1">> }
StageMessages ==
  { Cmd(<<c>> \o rest) : c \in CommandNames, rest \in Remainders }
    \cup { Txt(rest) : rest \in Remainders \ { << >> } } \cup { Cmd(<< >>) }
StaleFlags ==
  {"processing_remember", "processing_recall", "processing_delete",
   "allow_web_search"}
StaleArgs == { EmptyDict, [command_arg |-> <<"old">>] }
LoadedContexts ==
  { Update([k \in S |-> TRUE], e) : S \in SUBSET StaleFlags, e \in StaleArgs }

\* The two functions do not read the stores: each step applies one of them
\* once, to an input drawn in the initial state.
\* _process_message applied to a loaded state
ProcessMessageStep ==
  \E msg \in StageMessages, ctx \in LoadedContexts :
    \E r \in {ProcessMessage([InitialState(msg, NoSession, TRUE)
                                EXCEPT !.context = ctx])} :
      /\ turn = IdleTurn
      /\ turn' = [kind |-> "process_message", msg |-> msg, given |-> ctx,
                  context |-> r.context]
      /\ UNCHANGED <<now, sessions, memories, cache, prompted, saved, redis, procs>>

\* detect_commands applied to a message
DetectCommandsStep ==
  \E message \in DetectorMessages :
    /\ turn = IdleTurn
    /\ turn' = [kind |-> "detect_commands", message |-> message,
                detected |-> detect_commands(message)]
    /\ UNCHANGED <<now, sessions, memories, cache, prompted, saved, redis, procs>>

NextDetection ==
  \/ ProcessMessageStep
  \/ DetectCommandsStep

SpecDetection == Init /\ [][NextDetection]_vars

\* ------------------------------------------------------------------------
\* Properties of the detection functions
\* ------------------------------------------------------------------------
HeuristicFlags ==
  {"processing_remember", "processing_recall", "processing_delete"}

\* C13: for a message that starts with '/' and has a word after it,
\* _process_message sets command to that word (lower-cased), command_arg
\* to the rest when there is one, and none of processing_remember,
\* processing_recall and processing_delete, whatever the rest contains and
\* whatever the loaded context held.
C13_CommandBypassesHeuristics ==
  (turn.kind = "process_message" /\ IsCommand(turn.msg))
    => /\ Has(turn.context, "command")
       /\ turn.context["command"] = Lower(turn.msg.words[1])
       /\ IF Tail(turn.msg.words) = << >>
            THEN ~Has(turn.context, "command_arg")
            ELSE /\ Has(turn.context, "command_arg")
                 /\ turn.context["command_arg"] = Tail(turn.msg.words)
       /\ HeuristicFlags \cap DOMAIN turn.context = {}
C13_Witness ==
  /\ turn.kind = "process_message"
  /\ turn.msg = Cmd(<<"note", "Remember", "this">>)
  /\ Truthy(turn.given, "processing_delete")
  /\ turn.context["command"] = "note"
  /\ turn.context["command_arg"] = <<"Remember", "this">>

\* C14: detect_commands returns the tags of which at least one pattern
\* matches the lower-cased message, each once, in the order remember,
\* recall, help, clear; for the empty message it returns the empty list.
Tags == <<"remember", "recall", "help", "clear">>
MatchesTag(tag, ws) ==
  \E i \in 1..Len(command_patterns) :
    /\ command_patterns[i].tag = tag
    /\ \E j \in 1..Len(command_patterns[i].patterns) :
         Search(command_patterns[i].patterns[j], ws)
C14_EachMatchingTagOnce ==
  turn.kind = "detect_commands"
    => /\ turn.detected =
            SelectSeq(Tags, LAMBDA tag : MatchesTag(tag, LowerAll(turn.message)))
       /\ turn.message = << >> => turn.detected = << >>
C14_Witness ==
  /\ turn.kind = "detect_commands"
  /\ turn.message = <<"Remember", "this", "help">>
  /\ turn.detected = <<"remember", "help">>

\* ------------------------------------------------------------------------
\* MemoryService (src/src/services/memory_service.py)
\* ------------------------------------------------------------------------
\* Python values: the type and the value's text
Str(x) == [type |-> "str", v |-> x]
Number(x) == [type |-> "int", v |-> x]
Bool(x) == [type |-> "bool", v |-> x]
List(x) == [type |-> "list", v |-> x]
Dict(x) == [type |-> "dict", v |-> x]

\* the JSON texts and the values they stand for: json.dumps goes from the
\* value to the text, json.loads from the text to the value
JsonTexts ==
  { <<"42", Number("42")>>, <<"true", Bool("True")>>, <<"[1]", List("[1]")>>,
    <<"{\"a\": 1}", Dict("{'a': 1}")>>, <<"\"hello\"", Str("hello")>>,
    <<"\"42\"", Str("42")>> }
dumps(value) == (CHOOSE p \in JsonTexts : p[2] = value)[1]
IsJson(text) == \E p \in JsonTexts : p[1] = text
loads(text) == (CHOOSE p \in JsonTexts : p[1] = text)[2]

\* the values given to save_long_term_memory
ServiceValues ==
  { Str("hello"), Str("42"), Str("true"), Number("42"), Bool("True"),
    List("[1]"), Dict("{'a': 1}") }
ServiceUsers == {DefaultUser, NoUser}
ServiceKeys == { <<"k1">>, NoKey }
ServiceContexts == { EmptyDict, [user_name |-> TRUE] }

\* what a service method gives back: the exception that left it, or its
\* return value
Returned(x) == [raised |-> NotRaised, value |-> x]
Raised(e) == [raised |-> e, value |-> EmptyDict]

\* the value load_long_term_memory puts under a row's key
Decoded(text) == IF IsJson(text) THEN loads(text) ELSE Str(text)

\* load_long_term_memory without its outer try: the store's exception
\* leaves the method
LoadLongTermMemoryRaising(user_id, up) ==
  IF user_id = NoUser THEN Returned(EmptyDict)
  ELSE IF ~up THEN Raised("OperationalError")
  ELSE LET rows == RowsOf(memories, user_id)
       IN  Returned([k \in {x.key : x \in rows} |->
                       Decoded((CHOOSE x \in rows : x.key = k).value)])

\* MemoryService.load_long_term_memory; up says whether the durable store
\* answers
load_long_term_memory(user_id, up) ==
  IF user_id = NoUser THEN Returned(EmptyDict)
  ELSE IF ~up THEN Returned(EmptyDict)
  ELSE LET rows == RowsOf(memories, user_id)
       IN  Returned([k \in {x.key : x \in rows} |->
                       Decoded((CHOOSE x \in rows : x.key = k).value)])

\* MemoryService.load_session_memory; up says whether the cache answers
load_session_memory(session_id, up) ==
  IF session_id = NoSession THEN Returned(EmptyDict)
  ELSE IF ~up THEN Returned(EmptyDict)
  ELSE IF session_id \in DOMAIN cache
    THEN Returned(cache[session_id].context)
  ELSE Returned(EmptyDict)

\* MemoryService.save_long_term_memory: the text stored for the value
StoredText(value) == IF value.type # "str" THEN dumps(value) ELSE value.v

\* MemoryService.save_long_term_memory
SaveLongTermMemory ==
  \E user_id \in ServiceUsers, key \in ServiceKeys, value \in ServiceValues,
     up \in BOOLEAN :
    LET json_value == StoredText(value)
        hit == RowsAt(memories, user_id, key)
        ok == user_id # NoUser /\ key # NoKey /\ up
    IN  /\ memories' =
             IF ~ok THEN memories
             ELSE IF hit # {}
               THEN LET existing_memory == CHOOSE x \in hit : TRUE
                    IN  InsertRow(DeleteRows(memories, {existing_memory}),
                                  Row(user_id, key, json_value))
             ELSE InsertRow(memories, Row(user_id, key, json_value))
        /\ turn' = [kind |-> "save_long_term_memory", user_id |-> user_id,
                    key |-> key, value |-> value, up |-> up, ok |-> ok]
        /\ UNCHANGED <<now, sessions, cache, prompted, saved, redis, procs>>

\* MemoryService.save_session_memory
SaveSessionMemory ==
  \E session_id \in SessionIds \cup {NoSession}, context \in ServiceContexts,
     up \in BOOLEAN :
    LET ok == session_id # NoSession /\ context # EmptyDict /\ up
    IN  /\ cache' =
             IF ok THEN Put(cache, session_id,
                            [context |-> context,
                             expires_at |-> now + SessionTimeout])
             ELSE cache
        /\ turn' = [kind |-> "save_session_memory",
                    session_id |-> session_id, up |-> up, ok |-> ok]
        /\ UNCHANGED <<now, sessions, memories, prompted, saved, redis, procs>>

\* MemoryService.load_all_memory, with the results of its two loads
LoadAllMemory ==
  \E session_id \in SessionIds \cup {NoSession}, user_id \in ServiceUsers,
     cache_up \in BOOLEAN, store_up \in BOOLEAN :
    \E session_memory \in {load_session_memory(session_id, cache_up)},
       long_term_memory \in {load_long_term_memory(user_id, store_up)} :
      /\ turn' = [kind |-> "load_all_memory", session_id |-> session_id,
                  user_id |-> user_id, cache_up |-> cache_up,
                  up |-> store_up,
                  session_memory |-> session_memory,
                  long_term_memory |-> long_term_memory,
                  raised |-> IF session_memory.raised # NotRaised
                               THEN session_memory.raised
                               ELSE long_term_memory.raised]
      /\ UNCHANGED <<now, sessions, memories, cache, prompted, saved, redis, procs>>

NextMemoryService ==
  \/ SaveLongTermMemory
  \/ SaveSessionMemory
  \/ LoadAllMemory

SpecMemoryService == Init /\ [][NextMemoryService]_vars

\* ------------------------------------------------------------------------
\* Properties of the memory service
\* ------------------------------------------------------------------------
\* C15 (as claimed): save_long_term_memory(user, K, V) that succeeds,
\* followed by the load of the user's records, yields a mapping in which K
\* maps to a value equal to V.
C15_SaveThenLoadGivesValue ==
  [][ (/\ turn.kind = "save_long_term_memory"
       /\ turn.ok
       /\ turn'.kind = "load_all_memory"
       /\ turn'.user_id = turn.user_id
       /\ turn'.up)
        => /\ Has(turn'.long_term_memory.value, turn.key)
           /\ turn'.long_term_memory.value[turn.key] = turn.value ]_vars

\* C20: the two loads of the memory service never raise, and with the store
\* or the cache failing or holding nothing for the id each returns the empty
\* mapping, so that load_all_memory returns.
C20_LoadsNeverRaise ==
  [][ turn'.kind = "load_all_memory"
        => /\ turn'.raised = NotRaised
           /\ turn'.session_memory.raised = NotRaised
           /\ turn'.long_term_memory.raised = NotRaised
           /\ (~turn'.cache_up \/ turn'.session_id \notin DOMAIN cache)
                => turn'.session_memory.value = EmptyDict
           /\ (~turn'.up \/ RowsOf(memories, turn'.user_id) = {})
                => turn'.long_term_memory.value = EmptyDict ]_vars
C20_Witness ==
  /\ turn.kind = "load_all_memory"
  /\ ~turn.up
  /\ ~turn.cache_up
  /\ turn.session_id \in DOMAIN cache
  /\ RowsOf(memories, turn.user_id) # {}
  /\ turn.raised = NotRaised

\* ------------------------------------------------------------------------
\* Properties of the turns that save and recall
\* ------------------------------------------------------------------------

\* C11 (as claimed): a turn whose message is a prefixed command never calls
\* the completion service, and the only record it can add is the one that
\* '/save' writes under its memory_<time> key.
C11_CommandTurnsNeverAutoSave ==
  [][ (IsPipeline(turn') /\ IsCommand(turn'.msg))
        => /\ turn'.llm_calls = 0
           /\ \A x \in DOMAIN memories' :
                Copies(memories', x) > Copies(memories, x)
                  => /\ IsSaveCommand(turn'.msg)
                     /\ x = Row(turn'.user_id, MemoryKeyAt(now),
                                "manual_save") ]_vars

\* C12: a turn whose message is neither a '/save' command nor a text that
\* holds 'remember' adds no durable record, whatever the context loaded
\* from the cache holds.
C12_OnlySaveAndRememberCreate ==
  [][ (/\ IsPipeline(turn')
       /\ turn'.raised = NotRaised
       /\ ~IsSaveCommand(turn'.msg)
       /\ ~IsRememberPhrase(turn'.msg))
        => \A x \in DOMAIN memories' :
             Copies(memories', x) <= Copies(memories, x) ]_vars
C12_Witness ==
  /\ IsPipeline(turn)
  /\ turn.raised = NotRaised
  /\ turn.msg \in { Txt(<<"hello">>), Cmd(<<"recall">>) }
  /\ "processing_remember" \in turn.flags_loaded
  /\ turn.llm_calls = IF turn.msg.slash THEN 0 ELSE 1

C17_SaveKeepsPriorMessages ==
  [][ (/\ IsPipeline(turn')
       /\ IsSaveCommand(turn'.msg)
       /\ turn'.response.text.t = "saved"
       /\ turn'.session_id \in DOMAIN sessions)
        => turn'.saved_messages # << >> ]_vars

\* C18 (as claimed): with the durable store unreachable, the authentication
\* stage of run and run_stream does not raise.
C18_StoreDownStillAuthenticates ==
  IsPipeline(turn) => turn.raised # "OperationalError"

\* C19 (as claimed): a request that names a session whose row has expired
\* goes on, and afterwards the session's row is owned by the default user
\* and expires a session timeout from now.
C19_ExpiredSessionRenewed ==
  [][ (/\ IsPipeline(turn')
       /\ turn'.raised # "OperationalError"
       /\ turn'.session_id \in DOMAIN sessions
       /\ sessions[turn'.session_id].expires_at <= now)
        => /\ turn'.raised = NotRaised
           /\ sessions'[turn'.session_id] =
                [user_id |-> DefaultUser,
                 expires_at |-> now + SessionTimeout] ]_vars

\* ------------------------------------------------------------------------
\* Properties of long_term_memory and of the records' keys
\* ------------------------------------------------------------------------
KeysOf(rows) == {x.key : x \in rows}
Readable(rows) == {x \in rows : x.key # NoKey /\ x.value # ""}
IsCommandTurn(t) ==
  IsPipeline(t) /\ t.raised = NotRaised /\ IsCommand(t.msg)
\* what every command turn leaves in long_term_memory besides the equality
\* with the store: the new key after '/save', no key K after a '/delete K'
\* that deleted, nothing after a confirmed clear, what was loaded otherwise
CommandEffect(t) ==
  LET command == Lower(t.msg.words[1])
  IN  /\ (t.response.src = "reply" /\ t.response.text.t = "saved")
           => t.response.text.key \in t.ltm_cmd
      /\ (t.response.src = "reply" /\ t.response.text.t = "deleted")
           => t.response.text.key \notin t.ltm_cmd
      /\ t.msg \in ClearConfirmMessages => t.ltm_cmd = {}
      /\ (command \notin {"save", "delete", "clear"} \/ ~t.cmd_db)
           => t.ltm_cmd = t.ltm_loaded

C30_OneRecordPerKey ==
  \A u \in Users : \A k \in KeysIn(memories) : CountAt(memories, u, k) <= 1

\* ------------------------------------------------------------------------
\* RedisManager (src/src/redis_manager.py).  The variable redis holds the
\* fields of the instance and whether the server answers; cache is what the
\* server holds.  An operation maps the manager m and the server's table c
\* to the two of them afterwards, what it returned and what it raised.
\* ------------------------------------------------------------------------
None == << >>          \* an Optional without a value
Some(x) == <<x>>

\* _ensure_connected keeping the client it built when the ping fails
EnsureConnectedKeepingClient(m) ==
  IF ~m.client /\ ~m.fallback_mode
    THEN IF m.reachable THEN [m EXCEPT !.client = TRUE]
         ELSE [m EXCEPT !.client = TRUE, !.fallback_mode = TRUE]
  ELSE m

\* RedisManager._ensure_connected: the first use connects, and falls back to
\* memory_storage for good if the server does not answer the ping
EnsureConnected(m) ==
  IF ~m.client /\ ~m.fallback_mode
    THEN IF m.reachable THEN [m EXCEPT !.client = TRUE]
         ELSE [m EXCEPT !.fallback_mode = TRUE]
  ELSE m

Outcome(m, c, returned, raised) ==
  [redis |-> m, cache |-> c, returned |-> returned, raised |-> raised]

\* RedisManager.set_session_data
set_session_data(m, c, session_id, data, ttl) ==
  IF m.fallback_mode
    THEN Outcome([m EXCEPT !.memory_storage = Put(@, session_id, data)],
                 c, None, NotRaised)
  ELSE LET m1 == EnsureConnected(m)
       IN  IF ~m1.client THEN Outcome(m1, c, None, NotRaised)
           ELSE IF ~m1.reachable
             THEN Outcome(m1, c, None, "ConnectionError")
           ELSE Outcome(m1,
                        Put(c, session_id,
                            [context |-> data.context,
                             expires_at |-> now + ttl]),
                        None, NotRaised)

\* RedisManager.get_session_data reading the server whenever it answers,
\* in fallback mode too
GetSessionDataFromServer(m, c, session_id) ==
  IF m.reachable
    THEN Outcome(m, c,
                 IF session_id \in DOMAIN c
                   THEN Some([context |-> c[session_id].context]) ELSE None,
                 NotRaised)
  ELSE Outcome(m, c,
               IF session_id \in DOMAIN m.memory_storage
                 THEN Some(m.memory_storage[session_id]) ELSE None,
               NotRaised)

\* RedisManager.get_session_data
get_session_data(m, c, session_id) ==
  IF m.fallback_mode
    THEN Outcome(m, c,
                 IF session_id \in DOMAIN m.memory_storage
                   THEN Some(m.memory_storage[session_id]) ELSE None,
                 NotRaised)
  ELSE LET m1 == EnsureConnected(m)
       IN  IF ~m1.client THEN Outcome(m1, c, None, NotRaised)
           ELSE IF ~m1.reachable
             THEN Outcome(m1, c, None, "ConnectionError")
           ELSE Outcome(m1, c,
                        IF session_id \in DOMAIN c
                          THEN Some([context |-> c[session_id].context])
                          ELSE None,
                        NotRaised)

\* RedisManager.delete_session
delete_session(m, c, session_id) ==
  IF m.fallback_mode
    THEN Outcome([m EXCEPT !.memory_storage = Pop(@, {session_id})],
                 c, None, NotRaised)
  ELSE LET m1 == EnsureConnected(m)
       IN  IF ~m1.client THEN Outcome(m1, c, None, NotRaised)
           ELSE IF ~m1.reachable
             THEN Outcome(m1, c, None, "ConnectionError")
           ELSE Outcome(m1, Pop(c, {session_id}), None, NotRaised)

\* RedisManager.ping: an exception of the client's ping is caught
ping(m, c) ==
  IF m.fallback_mode THEN Outcome(m, c, Some(FALSE), NotRaised)
  ELSE LET m1 == EnsureConnected(m)
       IN  Outcome(m1, c, Some(m1.client /\ m1.reachable), NotRaised)

\* the data and the ttl given to set_session_data
SessionData ==
  { [context |-> EmptyDict], [context |-> [allow_web_search |-> TRUE]] }
Ttls == {1, 2}

\* an operation of the manager ends: o is its outcome, t what it was given
Settle(o, t) ==
  /\ redis' = o.redis
  /\ cache' = o.cache
  /\ turn' = t
  /\ UNCHANGED <<now, sessions, memories, prompted, saved, procs>>

SetSessionData ==
  \E session_id \in SessionIds, data \in SessionData, ttl \in Ttls :
    \E o \in {set_session_data(redis, cache, session_id, data, ttl)} :
      Settle(o, [kind |-> "set_session_data", session_id |-> session_id,
                 data |-> data, ttl |-> ttl, returned |-> o.returned,
                 raised |-> o.raised])

GetSessionData ==
  \E session_id \in SessionIds :
    \E o \in {get_session_data(redis, cache, session_id)} :
      Settle(o, [kind |-> "get_session_data", session_id |-> session_id,
                 data |-> [context |-> EmptyDict], ttl |-> 0,
                 returned |-> o.returned, raised |-> o.raised])

DeleteSession ==
  \E session_id \in SessionIds :
    \E o \in {delete_session(redis, cache, session_id)} :
      Settle(o, [kind |-> "delete_session", session_id |-> session_id,
                 data |-> [context |-> EmptyDict], ttl |-> 0,
                 returned |-> o.returned, raised |-> o.raised])

Ping ==
  \E o \in {ping(redis, cache)} :
    Settle(o, [kind |-> "ping", session_id |-> NoSession,
               data |-> [context |-> EmptyDict], ttl |-> 0,
               returned |-> o.returned, raised |-> o.raised])

\* the Redis server stops answering, or answers again
ServerChanges ==
  /\ redis' = [redis EXCEPT !.reachable = ~@]
  /\ turn' = IdleTurn
  /\ UNCHANGED <<now, sessions, memories, cache, prompted, saved, procs>>

\* the session cache as the stages of a run read and write it through the
\* manager m: memory_storage in fallback mode, the server's table otherwise
SessionView(m) ==
  IF m.fallback_mode
    THEN [s \in DOMAIN m.memory_storage |->
            [context |-> m.memory_storage[s].context,
             expires_at |-> now + SessionTimeout]]
    ELSE cache
Stored(view) == [s \in DOMAIN view |-> [context |-> view[s].context]]

\* the end of a run that went through the manager m
CommitCached(final, t, m) ==
  /\ RowCount(final.memories) <= MaxRows
  /\ sessions' = final.sessions
  /\ memories' = final.memories
  /\ cache' = IF m.fallback_mode THEN cache ELSE final.cache
  /\ redis' = IF m.fallback_mode
                THEN [m EXCEPT !.memory_storage = Stored(final.cache)]
                ELSE m
  /\ turn' = t
  /\ prompted' = IF IsPrompt(t.response) THEN prompted \cup {t.user_id}
                 ELSE prompted
  /\ saved' = StillSaved(final, t)
  /\ UNCHANGED <<now, procs>>

\* AxiomOSAgent.run with the session cache behind the manager: the load
\* stage makes the first call of get_session_data, which raises when the
\* connected client gets no answer
CachedMessages == { Cmd(<<"save">>), Txt(<<"hello">>) }
RunCached(msgs) ==
  \E sid \in SessionIds \cup {NoSession}, up \in BOOLEAN :
    \E fresh \in SessionChoices(sid) :
      \E r1 \in {Authenticate(InitialState(NoMessage, sid, up), fresh)} :
        IF r1.raised # NotRaised
          THEN Commit(r1, TurnOf("run", NoMessage, r1, r1, NoResponse))
        ELSE \E o \in {get_session_data(redis, cache, r1.session_id)} :
          IF o.raised # NotRaised
            THEN \E r2 \in {[r1 EXCEPT !.raised = o.raised]} :
                   CommitCached(r2, TurnOf("run", NoMessage, r2, r2,
                                           NoResponse), o.redis)
          ELSE \E msg \in msgs :
                 \E r2 \in {LoadMemory(
                              [r1 EXCEPT !.messages = <<Request(msg)>>,
                                         !.cache = SessionView(o.redis)])} :
                   \E r4 \in {ExecuteCommand(ProcessMessage(r2))} :
                     \E llm \in LlmChoices(r4) :
                       \E r6 \in {SaveMemory(Respond(r4, llm))} :
                         CommitCached(
                           r6,
                           AtCommandStage(
                             TurnOf("run", msg, r2, r6,
                                    r6.messages[Len(r6.messages)]),
                             r4),
                           o.redis)

NextRedis ==
  \/ SetSessionData
  \/ GetSessionData
  \/ DeleteSession
  \/ Ping
  \/ ServerChanges
  \/ RunCached(CachedMessages)
  \/ Tick

SpecRedis == Init /\ [][NextRedis]_vars

\* ------------------------------------------------------------------------
\* Properties of the session cache
\* ------------------------------------------------------------------------
IsManagerCall(t) ==
  t.kind \in {"set_session_data", "get_session_data", "delete_session"}
Lookup(d, k) == IF k \in DOMAIN d THEN Some(d[k]) ELSE None
FailedToAuthenticate(t) == t.raised \in {"OperationalError", "IntegrityError"}

\* C21 (as claimed): while the Redis server does not answer, get_session_data
\* returns without raising, and with no data unless the fallback map holds
\* some; a run that passes authentication returns a response without
\* raising, and a '/save' turn among them reports the save and adds its
\* record to the durable store.
C21_UnreachableCacheIsTolerated ==
  [][ ~redis.reachable
        => /\ turn'.kind = "get_session_data"
                => /\ turn'.raised = NotRaised
                   /\ turn'.returned =
                        Lookup(redis.memory_storage, turn'.session_id)
           /\ (turn'.kind = "run" /\ ~FailedToAuthenticate(turn'))
                => /\ turn'.raised = NotRaised
                   /\ turn'.response.src = "reply"
                   /\ IsSaveCommand(turn'.msg)
                        => /\ turn'.response.text.t = "saved"
                           /\ RowCount(memories') = RowCount(memories) + 1
     ]_vars

\* the in-process map the fallback mode is compared with, after the call t
MapAfter(map, t) ==
  CASE t.kind = "set_session_data" -> Put(map, t.session_id, t.data)
    [] t.kind = "delete_session" -> Pop(map, {t.session_id})
    [] OTHER -> map

\* C22: once the manager is in fallback mode it stays there (fallback_mode
\* reads true), set_session_data, get_session_data and delete_session never
\* raise, memory_storage changes as a map keyed by session id does (a set
\* stores the data whatever the ttl, a delete removes the entry, the passing
\* of time and the server's state change nothing), and a get returns the
\* entry of that map, or nothing if it has none.
C22_FallbackIsPlainMap ==
  [][ (redis.fallback_mode /\ ~IsPipeline(turn'))
        => /\ redis'.fallback_mode
           /\ redis'.memory_storage = MapAfter(redis.memory_storage, turn')
           /\ IsManagerCall(turn') => turn'.raised = NotRaised
           /\ turn'.kind = "get_session_data"
                => turn'.returned =
                     Lookup(redis.memory_storage, turn'.session_id) ]_vars
C22_Witness ==
  /\ redis.fallback_mode
  /\ redis.reachable
  /\ now > 0
  /\ turn.kind = "get_session_data"
  /\ turn.returned # None
  /\ turn.session_id \notin DOMAIN cache

\* ------------------------------------------------------------------------
\* Texts, the message list handed to the completion service and web search
\* ------------------------------------------------------------------------
\* the text of a request message, as words
TextOf(m) == IF m.slash THEN <<"/">> \o m.words ELSE m.words
\* the text of an entry of AgentState.messages
EntryText(x) == IF x.src = "request" THEN TextOf(x.text) ELSE <<x.text.t>>

\* str(e) of an exception, and the exception of a failing completion service
ErrorText(e) == <<e>>
LlmFailure == "APIError"

\* the format strings of the fallback messages
RespondFallback(last_message, e) ==
  <<"I", "received", "your", "message:">> \o last_message
    \o <<"I'm", "AxiomOS,", "your", "personal", "assistant.",
         "(Note:", "Groq", "API", "error:">> \o e \o <<")">>
StreamError(e) == <<"Error", "occurred:">> \o e
EndpointError(e) == <<"Error:">> \o e
ServiceFallback(message_content, e) ==
  <<"I", "received", "your", "message:">> \o message_content
    \o <<"I'm", "AxiomOS,", "your", "personal", "assistant.",
         "(Note:", "Groq", "API", "error:">> \o e \o <<")">>
ServiceStreamFallback(message_content, e) ==
  <<"I", "received", "your", "message:">> \o message_content
    \o <<"I'm", "AxiomOS,", "your", "personal", "assistant.",
         "(Note:", "Groq", "streaming", "error:">> \o e \o <<")">>

\* entries of a message list
System(x) == [role |-> "system", content |-> x]
User(x) == [role |-> "user", content |-> x]
SystemInstruction == <<"You", "are", "AxiomOS,", "a", "personal", "assistant.">>
MemorySummary == <<"User's", "long-term", "memories:">>
WebHeading == <<"Recent", "web", "search", "results", "(Tavily):">>

\* what the Tavily tool does: there is none (no key), it returns results,
\* it returns none, it raises
TavilyOutcomes == {"missing", "results", "empty", "error"}

\* the outcomes that matter to a run: the tool is not asked unless the
\* context allows the search
TavilyChoices(r) ==
  IF Truthy(r.context, "allow_web_search") THEN TavilyOutcomes
  ELSE {"missing"}

\* _maybe_add_web_results
MaybeAddWebResults(r, query, tavily) ==
  IF ~Truthy(r.context, "allow_web_search")
    THEN r
  ELSE IF tavily = "missing"
    THEN [r EXCEPT !.context =
            Put(r.context, "web_search_results", <<"unavailable">>)]
  ELSE IF Has(r.context, "web_search_query")
          /\ r.context["web_search_query"] = query
    THEN r
  ELSE LET invoked == [r EXCEPT !.searches = r.searches + 1]
       IN  CASE tavily = "results" ->
                  [invoked EXCEPT !.context =
                     Put(Put(Put(r.context, "web_search_results",
                                 <<"found">>),
                             "web_search_query", query),
                         "used_web_search", TRUE)]
             [] tavily = "empty" ->
                  [invoked EXCEPT !.context =
                     Put(r.context, "web_search_results", <<"nothing">>)]
             [] OTHER ->
                  [invoked EXCEPT !.context =
                     Put(r.context, "web_search_results", <<"failed">>)]

\* the system messages both modes build from long_term_memory and from the
\* web results, and state.messages[-3:-1]
MemoryEntries(r) ==
  IF DOMAIN r.long_term_memory # {} THEN <<System(MemorySummary)>> ELSE << >>
WebEntries(r) ==
  IF Has(r.context, "web_search_results")
       /\ r.context["web_search_results"] # << >>
    THEN <<System(WebHeading \o r.context["web_search_results"])>>
    ELSE << >>
PriorEntries(r) ==
  LET n == Len(r.messages)
      first == IF n > 3 THEN n - 2 ELSE 1
      recent == IF n > 1 THEN SubSeq(r.messages, first, n - 1) ELSE << >>
      texts == [i \in 1..Len(recent) |-> User(EntryText(recent[i]))]
  IN  SelectSeq(texts, LAMBDA m : m.content # << >>)

\* the conversation_context of _respond
RespondContext(r) ==
  LET last_message == EntryText(r.messages[Len(r.messages)])
  IN  <<System(SystemInstruction)>> \o MemoryEntries(r) \o WebEntries(r)
        \o PriorEntries(r)
        \o (IF last_message # << >> THEN <<User(last_message)>> ELSE << >>)

\* the conversation_context of run_stream
StreamContext(r, message) ==
  <<System(SystemInstruction)>> \o MemoryEntries(r) \o PriorEntries(r)
    \o (IF TextOf(message) # << >> THEN <<User(TextOf(message))>>
        ELSE << >>)
    \o WebEntries(r)

\* ------------------------------------------------------------------------
\* The stream of chunks of run_stream and its relay by /chat/stream
\* ------------------------------------------------------------------------
MaxTokens == 2         \* tokens the completion service streams at most
TokenTexts == <<"to", "ken", "s", "!">>
Token(i) == <<TokenTexts[i]>>

\* the texts of a list, one after the other
RECURSIVE Joined(_)
Joined(texts) ==
  IF texts = << >> THEN << >> ELSE Head(texts) \o Joined(Tail(texts))

\* StreamChunkModel
Chunk(token, is_complete, final_response) ==
  [token |-> token, is_complete |-> is_complete,
   final_response |-> final_response]

\* the store that stops answering once the last chunk of the response has
\* been produced
SaveOutages == {"none", "cache", "store"}

\* _save_memory when the session cache or the durable store does not answer:
\* set_session_data raises on the connected client, get_session raises
\* before the insert of the remembered conversation
SaveMemoryDuring(r, outage) ==
  LET writes_cache == r.session_id # NoSession /\ DOMAIN r.context # {}
      inserts == /\ ~Truthy(r.context, "processing_delete")
                 /\ ~Truthy(r.context, "skip_memory_save")
                 /\ r.user_id # NoUser
                 /\ Truthy(r.context, "processing_remember")
  IN  IF outage = "cache" /\ writes_cache
        THEN [r EXCEPT !.raised = "ConnectionError"]
      ELSE IF outage = "store" /\ inserts
        THEN [SaveMemory(r) EXCEPT !.memories = r.memories,
                                   !.raised = "OperationalError"]
      ELSE SaveMemory(r)

\* what one exchange produced: the run at its end, the chunks run_stream
\* yielded, the list handed to the completion service, the tokens taken from
\* it, whether it failed, the last entry of messages and the text returned
Produced(final, chunks, handed, consumed, llm_failed, response, output) ==
  [final |-> final, chunks |-> chunks, handed |-> handed,
   consumed |-> consumed, llm_failed |-> llm_failed, response |-> response,
   output |-> output]
Unanswered(r) == Produced(r, << >>, << >>, 0, FALSE, NoResponse, << >>)

\* the command short-circuit of run_stream: one chunk, then the save
StreamCommandChunks(r4, outage) ==
  LET response == IF Has(r4.context, "command_result")
                    THEN r4.context["command_result"]
                    ELSE Resp("command_executed", NoKey, 0)
      text == <<response.t>>
      popped == [Append1(r4, response) EXCEPT !.context =
                   Pop(r4.context,
                       {"skip_llm_response", "command_result",
                        "needs_clear_confirmation", "skip_memory_save"})]
  IN  Produced(SaveMemoryDuring(popped, outage),
               <<Chunk(text, TRUE, Some(text))>>, << >>, 0, FALSE,
               Reply(response), text)

\* the streamed completion of run_stream: the completion service streams n
\* tokens and then ends or, if fails, raises
StreamCompletionChunks(r4, message, tavily, n, fails, outage) ==
  LET r5 == IF TextOf(message) # << >>
              THEN MaybeAddWebResults(r4, message, tavily) ELSE r4
      handed == StreamContext(r5, message)
      called == [r5 EXCEPT !.llm_calls = r5.llm_calls + 1]
      tokens == [i \in 1..n |-> Chunk(Token(i), FALSE, None)]
      full_response == Joined([i \in 1..n |-> Token(i)])
      last == Chunk(<< >>, TRUE, Some(full_response))
      appended == IF full_response # << >>
                    THEN Append1(called, Resp("completion", NoKey, 0))
                    ELSE called
      kept == SaveMemoryDuring(appended, outage)
      error_response ==
        StreamError(ErrorText(IF fails THEN LlmFailure ELSE kept.raised))
      fallback == Chunk(error_response, TRUE, Some(error_response))
  IN  IF fails
        THEN Produced(called, tokens \o <<fallback>>, handed, n, TRUE,
                      Reply(Resp("stream_error", NoKey, 0)), error_response)
      ELSE IF kept.raised # NotRaised
        THEN Produced([kept EXCEPT !.raised = NotRaised],
                      tokens \o <<last, fallback>>, handed, n, FALSE,
                      Reply(Resp("stream_error", NoKey, 0)), error_response)
      ELSE Produced([kept EXCEPT !.context = Pop(kept.context,
                                                 TransientFlags)],
                    tokens \o <<last>>, handed, n, FALSE,
                    Reply(Resp("completion", NoKey, 0)), full_response)

\* run_stream closed by its consumer after the chunk of token i, with a
\* save of what has been streamed so far
CancelledAfterSaving(r4, message, tavily, i) ==
  LET r5 == IF TextOf(message) # << >>
              THEN MaybeAddWebResults(r4, message, tavily) ELSE r4
      called == [r5 EXCEPT !.llm_calls = r5.llm_calls + 1]
      tokens == [j \in 1..i |-> Chunk(Token(j), FALSE, None)]
  IN  Produced(SaveMemory(Append1(called, Resp("completion", NoKey, 0))),
               tokens, StreamContext(r5, message), i, FALSE, NoResponse,
               << >>)

\* run_stream closed by its consumer after the chunk of token i: the
\* generator ends at that yield
CancelledAfter(r4, message, tavily, i) ==
  LET r5 == IF TextOf(message) # << >>
              THEN MaybeAddWebResults(r4, message, tavily) ELSE r4
      called == [r5 EXCEPT !.llm_calls = r5.llm_calls + 1]
      tokens == [j \in 1..i |-> Chunk(Token(j), FALSE, None)]
  IN  Produced(called, tokens, StreamContext(r5, message), i, FALSE,
               NoResponse, << >>)

\* generate() of chat_stream: the chunks of run_stream, and an error chunk
\* if run_stream raises
Relay(chunks, raised) ==
  IF raised # NotRaised
    THEN LET text == EndpointError(ErrorText(raised))
         IN  Append(chunks, Chunk(text, TRUE, Some(text)))
    ELSE chunks

\* what an exchange was given and what it gave back
Exchange(kind, msg, allow_web_search, o, cancelled) ==
  [kind |-> kind, msg |-> msg, allow_web_search |-> allow_web_search,
   searches |-> o.final.searches, session_id |-> o.final.session_id,
   user_id |-> o.final.user_id, raised |-> o.final.raised,
   response |-> o.response, chunks |-> o.chunks,
   relayed |-> IF kind = "chat_stream" /\ ~cancelled
                 THEN Relay(o.chunks, o.final.raised) ELSE o.chunks,
   handed |-> o.handed, consumed |-> o.consumed,
   llm_failed |-> o.llm_failed, cancelled |-> cancelled,
   output |-> o.output]

\* the request: its message and its allow_web_search
WithRequest(r, msg, allow_web_search) ==
  [r EXCEPT !.messages = <<Request(msg)>>,
            !.context = IF allow_web_search
                          THEN Put(r.context, "allow_web_search", TRUE)
                          ELSE r.context]

StreamMessages ==
  { Cmd(<<"help">>), Txt(<<"hello">>), Txt(<<"Remember", "this">>) }

\* POST /chat/stream, consumed to its end
ChatStream ==
  \E sid \in SessionIds \cup {NoSession}, up \in BOOLEAN :
    \E fresh \in SessionChoices(sid) :
      \E r1 \in {Authenticate(InitialState(NoMessage, sid, up), fresh)} :
        IF r1.raised # NotRaised
          THEN Commit(r1, Exchange("chat_stream", NoMessage, FALSE,
                                   Unanswered(r1), FALSE))
        ELSE \E msg \in StreamMessages, allow_web_search \in BOOLEAN,
                outage \in SaveOutages :
          \E r4 \in {ExecuteCommand(ProcessMessage(LoadMemory(
                       WithRequest(r1, msg, allow_web_search))))} :
            IF Truthy(r4.context, "skip_llm_response")
              THEN \E o \in {StreamCommandChunks(r4, outage)} :
                     Commit(o.final, Exchange("chat_stream", msg,
                                              allow_web_search, o, FALSE))
            ELSE \E tavily \in TavilyChoices(r4), n \in 0..MaxTokens,
                    fails \in BOOLEAN :
                   \E o \in {StreamCompletionChunks(r4, msg, tavily, n,
                                                    fails, outage)} :
                     Commit(o.final, Exchange("chat_stream", msg,
                                              allow_web_search, o, FALSE))

\* POST /chat/stream, closed by the client after a chunk that is not the
\* last
ChatStreamCancelled ==
  \E sid \in SessionIds \cup {NoSession} :
    \E fresh \in SessionChoices(sid) :
      \E r1 \in {Authenticate(InitialState(NoMessage, sid, TRUE), fresh)} :
        /\ r1.raised = NotRaised
        /\ \E msg \in StreamMessages, allow_web_search \in BOOLEAN :
             \E r4 \in {ExecuteCommand(ProcessMessage(LoadMemory(
                          WithRequest(r1, msg, allow_web_search))))} :
               /\ ~Truthy(r4.context, "skip_llm_response")
               /\ \E tavily \in TavilyChoices(r4), i \in 1..MaxTokens :
                    \E o \in {CancelledAfter(r4, msg, tavily, i)} :
                      Commit(o.final, Exchange("chat_stream", msg,
                                              allow_web_search, o, TRUE))

\* the text of the last entry of messages that run returns
AsText(response, last_message) ==
  IF response.src # "reply" THEN EntryText(response)
  ELSE IF response.text.t = "llm_fallback"
    THEN RespondFallback(last_message, ErrorText(LlmFailure))
  ELSE <<response.text.t>>

\* POST /chat: AxiomOSAgent.run with its web search and the list it hands to
\* the completion service
Chat ==
  \E sid \in SessionIds \cup {NoSession}, up \in BOOLEAN :
    \E fresh \in SessionChoices(sid) :
      \E r1 \in {Authenticate(InitialState(NoMessage, sid, up), fresh)} :
        IF r1.raised # NotRaised
          THEN Commit(r1, Exchange("chat", NoMessage, FALSE,
                                   Unanswered(r1), FALSE))
        ELSE \E msg \in StreamMessages, allow_web_search \in BOOLEAN :
          \E r4 \in {ExecuteCommand(ProcessMessage(LoadMemory(
                       WithRequest(r1, msg, allow_web_search))))} :
           \E tavily \in TavilyChoices(r4) :
            \E r5 \in {MaybeAddWebResults(r4, msg, tavily)} :
             \E llm \in LlmChoices(r5) :
              \E r6 \in {SaveMemory(Respond(r5, llm))} :
                LET skipped == Truthy(r5.context, "skip_llm_response")
                    response == r6.messages[Len(r6.messages)]
                IN  Commit(r6,
                      Exchange("chat", msg, allow_web_search,
                        Produced(r6, << >>,
                                 IF skipped THEN << >>
                                 ELSE RespondContext(r5),
                                 0, ~skipped /\ llm = "error", response,
                                 AsText(response, TextOf(msg))),
                        FALSE))

\* ------------------------------------------------------------------------
\* LLMService and ConversationContextBuilder: functions of their arguments,
\* applied once to arguments drawn in the initial state
\* ------------------------------------------------------------------------
\* ConversationContextBuilder.build_conversation_context
build_conversation_context(current_message, message_history, long_term_memory, max_history) ==
  LET n == Len(message_history)
      first == IF n > max_history THEN n - max_history ELSE 1
      recent_messages ==
        IF n > 1 THEN SubSeq(message_history, first, n - 1) ELSE << >>
  IN  (IF DOMAIN long_term_memory # {} THEN <<System(MemorySummary)>>
       ELSE << >>)
        \o SelectSeq(recent_messages, LAMBDA m : m.role # "system")
        \o <<current_message>>

\* LLMService.generate_response
generate_response(messages, fails) ==
  IF messages = << >> THEN <<"No", "messages", "to", "process">>
  ELSE IF fails
    THEN ServiceFallback(messages[Len(messages)].content,
                         ErrorText(LlmFailure))
  ELSE <<"completion">>

\* LLMService.generate_response_stream: the tokens it yields
generate_response_stream(messages, n, fails) ==
  IF messages = << >> THEN << <<"No", "messages", "to", "process">> >>
  ELSE [i \in 1..n |-> Token(i)]
         \o (IF fails
               THEN <<ServiceStreamFallback(messages[Len(messages)].content,
                                            ErrorText(LlmFailure))>>
               ELSE << >>)

MaxHistory == 3        \* the default of max_history
MaxTurns == 5          \* entries of a message_history at most
HistoryEntries == { User(<<"earlier">>), System(<<"note">>) }
Histories == UNION { [1..n -> HistoryEntries] : n \in 0..MaxTurns }
ServiceLists ==
  { << >>, <<User(<<"hello">>)>>,
    <<System(MemorySummary), User(<<"earlier">>), User(<<"hello">>)>> }

Apply(t) ==
  /\ turn = IdleTurn
  /\ turn' = t
  /\ UNCHANGED <<now, sessions, memories, cache, prompted, saved, redis,
                 procs>>

BuildConversationContextStep ==
  \E message_history \in Histories,
     long_term_memory \in {EmptyDict, [k1 |-> "v"]} :
    LET current_message == User(<<"hello">>)
    IN  Apply([kind |-> "build_conversation_context",
               current |-> current_message, history |-> message_history,
               window |-> MaxHistory,
               handed |-> build_conversation_context(
                            current_message,
                            Append(message_history, current_message),
                            long_term_memory, MaxHistory)])

GenerateResponseStep ==
  \E messages \in ServiceLists, fails \in BOOLEAN :
    Apply([kind |-> "generate_response", messages |-> messages,
           llm_failed |-> fails /\ messages # << >>,
           output |-> generate_response(messages, fails),
           raised |-> NotRaised])

GenerateResponseStreamStep ==
  \E messages \in ServiceLists, n \in 0..MaxTokens, fails \in BOOLEAN :
    Apply([kind |-> "generate_response_stream", messages |-> messages,
           llm_failed |-> fails /\ messages # << >>,
           output |-> Joined(generate_response_stream(messages, n, fails)),
           raised |-> NotRaised])

NextExchanges ==
  \/ ChatStream
  \/ ChatStreamCancelled
  \/ Chat
  \/ BuildConversationContextStep
  \/ GenerateResponseStep
  \/ GenerateResponseStreamStep

SpecExchanges == Init /\ [][NextExchanges]_vars

\* ------------------------------------------------------------------------
\* Properties of the exchanges
\* ------------------------------------------------------------------------
IsExchange(t) == t.kind \in {"chat", "chat_stream"}
IsStreamed(t) == t.kind = "chat_stream" /\ ~t.cancelled
CompleteIn(chunks) == {i \in 1..Len(chunks) : chunks[i].is_complete}
RECURSIVE TokensOf(_)
TokensOf(chunks) ==
  IF chunks = << >> THEN << >>
  ELSE (IF Head(chunks).is_complete THEN << >> ELSE Head(chunks).token)
         \o TokensOf(Tail(chunks))

\* C23 (as claimed): the chunks a client receives for a streaming request
\* that it reads to the end hold exactly one chunk with is_complete = true,
\* and it is the last one.
C23_OneCompleteChunkLast ==
  [][ IsStreamed(turn')
        => CompleteIn(turn'.relayed) = {Len(turn'.relayed)} ]_vars

\* C24 (as claimed): in every stream run_stream produces to its end, the
\* tokens of the chunks with is_complete = false, concatenated, are the
\* final_response of the last chunk.
C24_TokensMakeFinalResponse ==
  [][ (IsStreamed(turn') /\ turn'.chunks # << >>)
        => turn'.chunks[Len(turn'.chunks)].final_response
             = Some(TokensOf(turn'.chunks)) ]_vars

\* C25 (as claimed): a stream the consumer closes before the last chunk
\* takes no token beyond those it has yielded, yields no complete chunk and
\* writes nothing to the session cache or to the durable store.
C25_CancelledStreamWritesNothing ==
  [][ (turn'.kind = "chat_stream" /\ turn'.cancelled)
        => /\ turn'.consumed = Len(turn'.chunks)
           /\ CompleteIn(turn'.chunks) = {}
           /\ cache' = cache
           /\ memories' = memories
           /\ sessions' = sessions ]_vars

\* C25 (amended): the same, except that the session row authentication has
\* inserted for a session without one stays in the durable store.
C25_CancelledStreamKeepsOnlySession ==
  [][ (turn'.kind = "chat_stream" /\ turn'.cancelled)
        => /\ turn'.consumed = Len(turn'.chunks)
           /\ CompleteIn(turn'.chunks) = {}
           /\ cache' = cache
           /\ memories' = memories
           /\ DOMAIN sessions' \subseteq
                (DOMAIN sessions) \cup {turn'.session_id}
           /\ \A s \in DOMAIN sessions :
                s \in DOMAIN sessions' /\ sessions'[s] = sessions[s] ]_vars
C25_Witness ==
  /\ turn.kind = "chat_stream"
  /\ turn.cancelled
  /\ turn.msg \in RememberMessages
  /\ turn.chunks # << >>
  /\ turn.session_id \in DOMAIN sessions
  /\ turn.session_id \notin DOMAIN cache
  /\ memories = EmptyTable

\* the user text of the call that failed
UserText(t) ==
  IF IsExchange(t) THEN TextOf(t.msg)
  ELSE t.messages[Len(t.messages)].content

\* C26 (as claimed): whenever the completion service fails, in run, in
\* run_stream read to its end, in generate_response and in
\* generate_response_stream, no exception leaves the call and the text it
\* gives back embeds the user's text and the text of the error.
C26_FallbackEmbedsTextAndError ==
  [][ ( /\ turn'.kind \in {"chat", "chat_stream", "generate_response",
                           "generate_response_stream"}
        /\ turn'.llm_failed
        /\ IsExchange(turn') => ~turn'.cancelled )
        => /\ turn'.raised = NotRaised
           /\ PhraseIn(UserText(turn'), turn'.output)
           /\ PhraseIn(ErrorText(LlmFailure), turn'.output) ]_vars

\* the current message and the history window of the call that built a list
CurrentOf(t) == IF IsExchange(t) THEN User(TextOf(t.msg)) ELSE t.current
AgentWindow == 2       \* state.messages[-3:-1]
WindowOf(t) == IF IsExchange(t) THEN AgentWindow ELSE t.window
IsWebEntry(m) == m.role = "system" /\ PhraseIn(WebHeading, m.content)

\* C27 (as claimed): every list handed to the completion service ends with
\* the current user message, has at most N entries of earlier turns before
\* it, and has its web-search system message, if any, before it.
C27_ListEndsWithCurrentMessage ==
  [][ ( /\ turn'.kind \in {"chat", "chat_stream",
                           "build_conversation_context"}
        /\ turn'.handed # << >> )
        => LET handed == turn'.handed
               n == Len(handed)
           IN  /\ handed[n] = CurrentOf(turn')
               /\ \A i \in 1..n : IsWebEntry(handed[i]) => i < n
               /\ Cardinality({i \in 1..(n - 1) :
                                 handed[i].role # "system"})
                    <= WindowOf(turn') ]_vars

\* ------------------------------------------------------------------------
\* Two requests with the same session id, served at the same time (by two
\* of the processes that share the stores: the API server, the Chainlit
\* application, the console).  A request takes its steps one store
\* operation at a time: the lookup of the session row, the insert of a new
\* row, the load, the stages without store access, the save.
\* ------------------------------------------------------------------------
\* the run record of a request in flight carries no copy of the stores
Detached(r) ==
  [r EXCEPT !.sessions = << >>, !.memories = EmptyTable, !.cache = << >>]
Attached(r) ==
  [r EXCEPT !.sessions = sessions, !.memories = memories, !.cache = cache]
InFlight(pc, r, found, wrote) ==
  [pc |-> pc, run |-> Detached(r), found |-> found, wrote |-> wrote]

\* the query of _authenticate
FindSession(r) ==
  /\ r.session_id \in DOMAIN r.sessions
  /\ r.sessions[r.session_id].expires_at > now

\* _authenticate after its query: the row found is adopted, or a new row is
\* added and committed
AdoptOrCreate(r, found) ==
  LET sid == r.session_id
      row == [user_id |-> DefaultUser, expires_at |-> now + SessionTimeout]
  IN  IF found
        THEN [r EXCEPT !.user_id = r.sessions[sid].user_id]
      ELSE IF sid \in DOMAIN r.sessions
        THEN [r EXCEPT !.raised = "IntegrityError"]
      ELSE [r EXCEPT !.sessions = Put(r.sessions, sid, row),
                     !.user_id = row.user_id]

ConcurrentMessages == { Cmd(<<"help">>), Txt(<<"hello">>) }

Step(p, state) ==
  /\ procs' = [procs EXCEPT ![p] = state]
  /\ UNCHANGED <<now, turn, prompted, saved, redis>>

\* a request arrives and _authenticate runs its query
Arrives ==
  \E p \in Requests, sid \in SessionIds, msg \in ConcurrentMessages,
     allow_web_search \in BOOLEAN :
    /\ procs[p].pc = "idle"
    /\ \E r \in {Attached(WithRequest(InitialState(msg, sid, TRUE), msg,
                                      allow_web_search))} :
         Step(p, InFlight("queried", r, FindSession(r), None))
    /\ UNCHANGED <<sessions, memories, cache>>

\* _authenticate adopts the row it found or commits a new one
Authenticates ==
  \E p \in Requests :
    /\ procs[p].pc = "queried"
    /\ \E r \in {AdoptOrCreate(Attached(procs[p].run), procs[p].found)} :
         /\ sessions' = r.sessions
         /\ Step(p, InFlight(IF r.raised # NotRaised THEN "failed"
                             ELSE "authenticated",
                             r, procs[p].found, None))
    /\ UNCHANGED <<memories, cache>>

\* _load_memory reads the session cache and the user's rows
Loads ==
  \E p \in Requests :
    /\ procs[p].pc = "authenticated"
    /\ Step(p, InFlight("loaded", LoadMemory(Attached(procs[p].run)),
                        procs[p].found, None))
    /\ UNCHANGED <<sessions, memories, cache>>

\* _process_message, _execute_command and _respond
Responds ==
  \E p \in Requests, llm \in LlmOutcomes :
    /\ procs[p].pc = "loaded"
    /\ \E r4 \in {ExecuteCommand(ProcessMessage(Attached(procs[p].run)))} :
         \E r5 \in {Respond(MaybeAddWebResults(r4, LastMessage(r4),
                                               "missing"), llm)} :
           /\ memories' = r5.memories
           /\ Step(p, InFlight("responded", r5, procs[p].found, None))
    /\ UNCHANGED <<sessions, cache>>

\* _save_memory writes the session context; the request returns
Saves ==
  \E p \in Requests :
    /\ procs[p].pc = "responded"
    /\ \E r6 \in {SaveMemory(Attached(procs[p].run))} :
         /\ cache' = r6.cache
         /\ memories' = r6.memories
         /\ Step(p, InFlight("done", r6, procs[p].found,
                             IF DOMAIN procs[p].run.context # {}
                               THEN Some(r6.cache[r6.session_id])
                               ELSE None))
    /\ UNCHANGED sessions

\* both requests are over: the next two may arrive
Leave ==
  /\ \A p \in Requests : procs[p].pc \in {"done", "failed"}
  /\ procs' = [p \in Requests |-> NotStarted]
  /\ UNCHANGED <<now, sessions, memories, cache, turn, prompted, saved,
                 redis>>

NextConcurrent ==
  \/ Arrives
  \/ Authenticates
  \/ Loads
  \/ Responds
  \/ Saves
  \/ Leave

SpecConcurrent == Init /\ [][NextConcurrent]_vars

\* C28 (as claimed): of two requests with the same session id that run at
\* the same time, none fails, and once both have returned the session
\* context in the cache is the one that one of them has written, if any has.
C28_BothCompleteLastWriterWins ==
  /\ \A p \in Requests : procs[p].pc # "failed"
  /\ (\A p \in Requests : procs[p].pc = "done")
       => LET written == {procs[p].wrote : p \in Requests} \ {None}
          IN  written # {}
                => \E s \in DOMAIN cache : Some(cache[s]) \in written

\* ------------------------------------------------------------------------
\* Properties of the remember intent
\* ------------------------------------------------------------------------
IsNew(x) == Copies(memories', x) = Copies(memories, x) + 1

\* C31 (as claimed): in run and in run_stream, a turn that is not a command
\* and whose message holds 'remember', served with the durable store
\* available, commits one new long-term record for the user; so the record
\* exists whenever the response is 'I've saved our conversation to your
\* long-term memory.'
C31_RememberTurnCommitsRecord ==
  [][ (/\ IsPipeline(turn')
       /\ turn'.raised = NotRaised
       /\ turn'.user_id # NoUser
       /\ IsRememberPhrase(turn'.msg))
        => IsNew(Row(turn'.user_id, ConversationKeyAt(now),
                     "explicitly_saved")) ]_vars

\* ------------------------------------------------------------------------
\* Properties of the web search permission
\* ------------------------------------------------------------------------

\* C32 (as claimed): the Tavily tool is invoked only in a turn whose own
\* request sets allow_web_search; a request that does not set it triggers
\* no search, whatever the session cache holds from earlier turns.
C32_SearchOnlyWhenRequestAllows ==
  (IsExchange(turn) /\ turn.searches > 0) => turn.allow_web_search

\* ------------------------------------------------------------------------
\* ConversationContextBuilder and AgentState of the services
\* (src/src/services/conversation_context_builder.py, agent_state.py)
\* ------------------------------------------------------------------------
Assistant(x) == [role |-> "assistant", content |-> x]

\* AgentState.with_context(**kwargs), with_message, with_detected_commands
with_context(state, kwargs) ==
  [state EXCEPT !.context = Update(state.context, kwargs)]
with_message(state, message) ==
  [state EXCEPT !.messages = Append(state.messages, message)]
with_detected_commands(state, commands) ==
  [state EXCEPT !.detected_commands = commands]

Includes(commands, tag) == \E i \in 1..Len(commands) : commands[i] = tag

\* ConversationContextBuilder.detect_and_set_commands
detect_and_set_commands(state) ==
  IF state.messages = << >> THEN state
  ELSE LET last_message == state.messages[Len(state.messages)]
           detected_commands == detect_commands(last_message.content)
           c0 == state.context
           c1 == IF Includes(detected_commands, "remember")
                   THEN Put(c0, "processing_remember", TRUE) ELSE c0
           c2 == IF Includes(detected_commands, "recall")
                   THEN Put(c1, "processing_recall", TRUE) ELSE c1
           updated_context ==
                 IF Includes(detected_commands, "clear")
                   THEN Put(c2, "clear_context", TRUE) ELSE c2
       IN  with_context(with_detected_commands(state, detected_commands),
                        updated_context)

\* create_help_response and the answer to clear
HelpResponse == <<"I'm", "AxiomOS,", "your", "personal", "assistant.">>
ClearedResponse ==
  <<"Conversation", "context", "cleared.", "How", "can", "I", "help", "you?">>

\* ConversationContextBuilder.handle_immediate_command
handle_immediate_command(state) ==
  IF state.detected_commands = << >> THEN state
  ELSE IF Includes(state.detected_commands, "help")
    THEN with_message(state, Assistant(HelpResponse))
  ELSE IF Includes(state.detected_commands, "clear")
    THEN with_message(with_context(state, EmptyDict),
                      Assistant(ClearedResponse))
  ELSE state

\* the states given to the two functions
BuilderLists ==
  { << >>, <<User(<<"Remember", "this">>)>>, <<User(<<"recall">>)>>,
    <<User(<<"you">>)>>, <<User(<<"Remember", "this">>), User(<<"clear">>)>>,
    <<User(<<"recall">>), User(<<"help">>)>> }
BuilderContexts ==
  { [k \in S |-> TRUE] :
      S \in SUBSET {"processing_remember", "processing_recall", "user_name"} }
BuilderMemories == { EmptyDict, [k1 |-> "v"] }
BuilderCommands ==
  { << >>, <<"clear">>, <<"help">>, <<"help", "clear">>,
    <<"remember", "clear">>, <<"recall">> }
BuilderStates ==
  { [messages |-> m, context |-> c, long_term_memory |-> l,
     detected_commands |-> d] :
      m \in BuilderLists, c \in BuilderContexts, l \in BuilderMemories,
      d \in BuilderCommands }

DetectAndSetCommandsStep ==
  \E state \in BuilderStates :
    /\ turn = IdleTurn
    /\ turn' = [kind |-> "detect_and_set_commands", state |-> state,
                result |-> detect_and_set_commands(state)]
    /\ UNCHANGED <<now, sessions, memories, cache, prompted, saved, redis, procs>>

HandleImmediateCommandStep ==
  \E state \in BuilderStates :
    /\ turn = IdleTurn
    /\ turn' = [kind |-> "handle_immediate_command", state |-> state,
                result |-> handle_immediate_command(state)]
    /\ UNCHANGED <<now, sessions, memories, cache, prompted, saved, redis, procs>>

NextBuilder ==
  \/ ProcessMessageStep
  \/ DetectAndSetCommandsStep
  \/ HandleImmediateCommandStep

SpecBuilder == Init /\ [][NextBuilder]_vars

\* ------------------------------------------------------------------------
\* Properties of the detection stage and of the immediate commands
\* ------------------------------------------------------------------------
IsRecallPhrase(m) ==
  /\ ~IsCommand(m)
  /\ ~InText("remember", LowerAll(m.words))
  /\ InText("recall", LowerAll(m.words))
LastContent(state) == state.messages[Len(state.messages)].content

\* C33 (as claimed): after _process_message, and after
\* detect_and_set_commands, processing_remember and processing_recall are
\* in the context exactly when the current message is classified as that
\* intent; a flag that the given context carried from an earlier turn does
\* not survive.
C33_FlagsFollowCurrentMessage ==
  /\ turn.kind = "process_message"
       => /\ Has(turn.context, "processing_remember")
               <=> IsRememberPhrase(turn.msg)
          /\ Has(turn.context, "processing_recall")
               <=> IsRecallPhrase(turn.msg)
  /\ (turn.kind = "detect_and_set_commands" /\ turn.state.messages # << >>)
       => /\ Has(turn.result.context, "processing_remember")
               <=> Includes(detect_commands(LastContent(turn.state)),
                            "remember")
          /\ Has(turn.result.context, "processing_recall")
               <=> Includes(detect_commands(LastContent(turn.state)),
                            "recall")

\* C38 (as claimed): handle_immediate_command, for a state whose detected
\* commands hold clear and not help, returns a state with an empty context,
\* the same long_term_memory, and the given messages followed by the
\* 'Conversation context cleared' assistant message.
C38_ClearEmptiesContext ==
  (/\ turn.kind = "handle_immediate_command"
   /\ Includes(turn.state.detected_commands, "clear")
   /\ ~Includes(turn.state.detected_commands, "help"))
    => /\ turn.result.context = EmptyDict
       /\ turn.result.long_term_memory = turn.state.long_term_memory
       /\ turn.result.messages =
            Append(turn.state.messages, Assistant(ClearedResponse))

\* ------------------------------------------------------------------------
\* The endpoints POST /chat and POST /api/chat (src/fastapi_app.py) over
\* the session cache
\* ------------------------------------------------------------------------
\* what the completion service returns to _respond: a text, the empty text,
\* or an error
CompletionOutcomes == LlmOutcomes \cup {"empty"}

EndpointMessages == { Cmd(<<"help">>), Txt(<<"hello">>) }
\* a request that does not allow the search meets a tool that answers or
\* that is missing
EndpointTavily == {"missing", "results"}

\* AxiomOSAgent.run from a state that has passed _authenticate: the run at
\* its end, the context after the load stage, the context the save stage
\* wrote to the session cache, if it wrote one, and the response
RunAuthenticated(r1, msg, allow_web_search, tavily, llm) ==
  LET r2 == LoadMemory(WithRequest(r1, msg, allow_web_search))
      r4 == ExecuteCommand(ProcessMessage(r2))
      r5 == Respond(MaybeAddWebResults(r4, msg, tavily), llm)
      r6 == SaveMemory(r5)
  IN  [final |-> r6, loaded |-> r2.context,
       wrote |-> IF r5.session_id # NoSession /\ DOMAIN r5.context # {}
                   THEN Some(r6.cache[r6.session_id].context) ELSE None,
       response |-> r6.messages[Len(r6.messages)]]
NotRun(r1) ==
  [final |-> r1, loaded |-> EmptyDict, wrote |-> None,
   response |-> NoResponse]

\* what a served request was given and what it gave back
Served(kind, msg, allow_web_search, o) ==
  [kind |-> kind, msg |-> msg, allow_web_search |-> allow_web_search,
   session_id |-> o.final.session_id, user_id |-> o.final.user_id,
   raised |-> o.final.raised, loaded |-> o.loaded, wrote |-> o.wrote,
   response |-> o.response]

\* the blob api_chat writes: the session data it read before the run, with
\* its messages, message_count, updated_at and title, which the agent does
\* not read
SessionBlob(before) ==
  [context |-> before, expires_at |-> now + SessionTimeout]

\* POST /chat
ChatEndpoint ==
  \E sid \in SessionIds \cup {NoSession}, up \in BOOLEAN :
    \E fresh \in SessionChoices(sid) :
      \E r1 \in {Authenticate(InitialState(NoMessage, sid, up), fresh)} :
        IF r1.raised # NotRaised
          THEN Commit(r1, Served("post_chat", NoMessage, FALSE, NotRun(r1)))
        ELSE \E msg \in EndpointMessages, allow_web_search \in BOOLEAN :
          \E tavily \in IF allow_web_search THEN TavilyOutcomes
                         ELSE EndpointTavily,
             llm \in CompletionOutcomes :
            \E o \in {RunAuthenticated(r1, msg, allow_web_search, tavily,
                                        llm)} :
              Commit(o.final, Served("post_chat", msg, allow_web_search, o))

\* POST /api/chat
ApiChat ==
  \E sid \in SessionIds \cup {NoSession}, up \in BOOLEAN :
    \E session_id \in SessionChoices(sid) :
      LET initialised ==
            IF sid = NoSession
              THEN Put(cache, session_id, SessionBlob(EmptyDict))
              ELSE cache
          before == IF session_id \in DOMAIN initialised
                      THEN initialised[session_id].context ELSE EmptyDict
          r0 == [InitialState(NoMessage, session_id, up)
                   EXCEPT !.cache = initialised]
      IN  \E r1 \in {Authenticate(r0, session_id)} :
            IF r1.raised # NotRaised
              THEN Commit(r1, Served("post_api_chat", NoMessage, FALSE,
                                     NotRun(r1)))
            ELSE \E msg \in EndpointMessages, allow_web_search \in BOOLEAN :
              \E tavily \in IF allow_web_search THEN TavilyOutcomes
                             ELSE EndpointTavily,
                 llm \in CompletionOutcomes :
                \E o \in {RunAuthenticated(r1, msg, allow_web_search,
                                            tavily, llm)} :
                  Commit([o.final EXCEPT !.cache =
                            Put(o.final.cache, session_id,
                                SessionBlob(before))],
                         Served("post_api_chat", msg, allow_web_search, o))

NextEndpoints ==
  \/ ChatEndpoint
  \/ ApiChat
  \/ Tick

SpecEndpoints == Init /\ [][NextEndpoints]_vars

\* ------------------------------------------------------------------------
\* Properties of the endpoints
\* ------------------------------------------------------------------------
IsServed(t) == t.kind \in {"post_chat", "post_api_chat"}
Within(d, e) == \A k \in DOMAIN d : k \in DOMAIN e /\ e[k] = d[k]

\* C34 (as claimed): of two consecutive turns of one session, served by
\* /chat or by /api/chat with nothing else written in between, the second
\* has after its load stage every key and value of the sanitized context
\* that the save stage of the first wrote to the session cache.
C34_SecondTurnLoadsWhatFirstSaved ==
  [][ (/\ IsServed(turn) /\ IsServed(turn')
       /\ turn.raised = NotRaised /\ turn'.raised = NotRaised
       /\ turn.session_id = turn'.session_id
       /\ turn.wrote # None)
        => Within(turn.wrote[1], turn'.loaded) ]_vars

\* C37 (as claimed): the response run returns is a text produced in this
\* turn (a command result, the completion text or the fallback message) and
\* never the caller's own message, also when the completion service
\* returns the empty text.
C37_ResponseIsProducedText ==
  (IsServed(turn) /\ turn.raised = NotRaised)
    => /\ turn.response.src = "reply"
       /\ turn.response # Request(turn.msg)

\* ------------------------------------------------------------------------
\* The turns whose message names a deletion
\* ------------------------------------------------------------------------
IntentMessages ==
  { Txt(<<"Remember", "to", "delete", "my", "memory">>),
    Txt(<<"Delete", "my", "memory">>), Txt(<<"delete", "all", "memories">>),
    Txt(<<"hello">>) }

NextIntent ==
  \/ Run(IntentMessages)
  \/ RunStream(IntentMessages)
  \/ Tick

SpecIntent == Init /\ [][NextIntent]_vars

NamesDeletion(m) ==
  /\ InText("delete", LowerAll(m.words))
  /\ \/ InText("memory", LowerAll(m.words))
     \/ InText("memories", LowerAll(m.words))

\* C35 (as claimed): a turn of run or of run_stream whose message holds
\* 'delete' together with 'memory' or 'memories' adds no long-term record,
\* whatever else the message holds.
C35_DeletionTurnCreatesNothing ==
  [][ (IsPipeline(turn') /\ NamesDeletion(turn'.msg))
        => \A x \in DOMAIN memories' :
             Copies(memories', x) <= Copies(memories, x) ]_vars

\* ------------------------------------------------------------------------
\* Properties of the values in the session cache
\* ------------------------------------------------------------------------

\* C36: every value the save stage of the agent has written to the session
\* cache has a context without command_result, skip_llm_response,
\* skip_memory_save, needs_clear_confirmation, command and command_arg,
\* after any sequence of turns.
C36_CachedContextHasNoEphemeralKeys ==
  \A s \in DOMAIN cache : DOMAIN cache[s].context \cap EphemeralKeys = {}
C36_Witness ==
  /\ IsPipeline(turn)
  /\ turn.raised = NotRaised
  /\ turn.msg = Cmd(<<"delete", "k1">>)
  /\ turn.session_id \in DOMAIN cache
  /\ cache[turn.session_id].expires_at = now + SessionTimeout

\* ------------------------------------------------------------------------
\* Properties of the manager's fallback mode
\* ------------------------------------------------------------------------

\* C39: in every reachable state of RedisManager, fallback_mode and a
\* client that is not None never hold together; once fallback_mode is true
\* it stays true, no later operation builds a client, and none changes what
\* the backing service holds (only the passing of time expires entries
\* there) or reads it: ping answers False and a get answers from
\* memory_storage.
C39_FallbackIsFinal ==
  /\ [](~(redis.fallback_mode /\ redis.client))
  /\ [][ redis.fallback_mode
           => /\ redis'.fallback_mode
              /\ ~redis'.client
              /\ now' = now => cache' = cache
              /\ turn'.kind = "ping" => turn'.returned = Some(FALSE)
              /\ turn'.kind = "get_session_data"
                   => turn'.returned =
                        Lookup(redis.memory_storage, turn'.session_id)
        ]_vars
C39_Witness ==
  /\ redis.fallback_mode
  /\ redis.reachable
  /\ turn.kind = "ping"
  /\ turn.returned = Some(FALSE)
  /\ DOMAIN redis.memory_storage # {}
====
